---------------------------- MODULE Spec2Model ----------------------------
(***************************************************************************)
(* Model of the python-worker-service task handlers (Cloud Tasks +         *)
(* Firestore + R2 variant, controllers.py): the /execute and /execute_auth *)
(* handlers, the Firestore job document they update, the runner's          *)
(* classification of a child termination and the temporary workspace       *)
(* directory of the workspace path.                                        *)
(*                                                                         *)
(* Several deliveries of the same job_id are handled by independent        *)
(* handler invocations; their steps interleave at the suspension points    *)
(* (store writes, downloads, the child wait).                              *)
(***************************************************************************)
EXTENDS Integers, Sequences, FiniteSets, TLC

(***************************************************************************)
(* Bounds of the model.                                                    *)
(***************************************************************************)
\* Number of deliveries (handler invocations) of the one job_id.
MaxDeliveries == 2
\* The wall clock takes the values 1..MaxClock.
MaxClock == 2

\* configs.py: DEFAULT_EXECUTION_TIMEOUT_SEC = int(os.getenv(..., "30"))
DEFAULT_EXECUTION_TIMEOUT_SEC == 30

Workers == 1..MaxDeliveries

\* Python's None, and a field that the document does not hold.
Null == "<null>"

(***************************************************************************)
(* The job document.  Timestamps are clock readings; 0 is an unset one.    *)
(***************************************************************************)
Fields ==
    {"status", "output", "error", "failure_type",
     "processing_started_at", "completed_at", "updated_at"}

\* The document as the enqueuer creates it: queued, nothing else set.
InitialJob ==
    [status |-> "queued", output |-> Null, error |-> Null,
     failure_type |-> Null, processing_started_at |-> 0,
     completed_at |-> 0, updated_at |-> 0]

\* Python truthiness of an optional string: None and "" are falsy.
Truthy(s) == s # Null /\ s # ""

\* x or y
Or(x, y) == IF Truthy(x) THEN x ELSE y

(***************************************************************************)
(* The Sandbox Runner.  A child termination is what subprocess.run gives:  *)
(* a completed process (returncode, stdout, stderr), TimeoutExpired, or    *)
(* another exception (spawn failure).                                      *)
(***************************************************************************)
Procs ==
    { [kind |-> "exit", returncode |-> 0, stdout |-> "hi\n", stderr |-> ""],
      [kind |-> "exit", returncode |-> 1, stdout |-> "", stderr |-> "NameError"],
      [kind |-> "exit", returncode |-> 1, stdout |-> "partial", stderr |-> ""],
      [kind |-> "exit", returncode |-> 1, stdout |-> "", stderr |-> ""],
      [kind |-> "timeout", returncode |-> 0, stdout |-> "", stderr |-> ""],
      [kind |-> "oserror", returncode |-> 0, stdout |-> "", stderr |-> ""] }

\* TimeoutMessage with the number of seconds written out instead of read from
\* the configuration.
TimeoutMessageTenSeconds == "Execution timed out after 10 seconds."

TimeoutMessage ==
    "Execution timed out after " \o ToString(DEFAULT_EXECUTION_TIMEOUT_SEC)
        \o " seconds."

\* ExecutePythonCodeDirect with no fallback to stdout for the error text.
ExecutePythonCodeDirectStderrOnly(proc) ==
    IF proc.kind = "exit" /\ proc.returncode = 0
    THEN [output |-> proc.stdout, error |-> Null, code |-> 0]
    ELSE IF proc.kind = "exit"
    THEN [output |-> proc.stdout, error |-> proc.stderr, code |-> 1]
    ELSE IF proc.kind = "timeout"
    THEN [output |-> Null, error |-> TimeoutMessage, code |-> 2]
    ELSE [output |-> Null, error |-> "Internal worker error: spawn failed",
          code |-> 3]

\* _execute_python_code_direct: (output, error_details, exec_status_code).
ExecutePythonCodeDirect(proc) ==
    IF proc.kind = "exit" /\ proc.returncode = 0
    THEN [output |-> proc.stdout, error |-> Null, code |-> 0]
    ELSE IF proc.kind = "exit"
    THEN [output |-> proc.stdout,
          error |-> IF Truthy(proc.stderr) THEN proc.stderr ELSE proc.stdout,
          code |-> 1]
    ELSE IF proc.kind = "timeout"
    THEN [output |-> Null, error |-> TimeoutMessage, code |-> 2]
    ELSE [output |-> Null, error |-> "Internal worker error: spawn failed",
          code |-> 3]

\* _execute_python_script_in_dir: the same classification, for a script.
ExecutePythonScriptInDir(proc) ==
    IF proc.kind = "exit" /\ proc.returncode = 0
    THEN [output |-> proc.stdout, error |-> Null, code |-> 0]
    ELSE IF proc.kind = "exit"
    THEN [output |-> proc.stdout,
          error |-> IF Truthy(proc.stderr) THEN proc.stderr ELSE proc.stdout,
          code |-> 1]
    ELSE IF proc.kind = "timeout"
    THEN [output |-> Null, error |-> TimeoutMessage, code |-> 2]
    ELSE [output |-> Null, error |-> "Internal worker error: spawn failed",
          code |-> 3]

(***************************************************************************)
(* Update data (a Python dict: a function on the fields it names) and its  *)
(* field-wise merge into the document by transaction.update.               *)
(***************************************************************************)
StatusUpdate(status, t) == [status |-> status, updated_at |-> t]

\* str.startswith("processing")
StartsWithProcessing(status) ==
    status \in {"processing_direct", "processing_auth_workspace"}

FailureTypeOf(exec_status_code) ==
    IF exec_status_code = 2 THEN ("failure_type" :> "timeout")
    ELSE IF exec_status_code = 1 THEN ("failure_type" :> "user_code_error")
    ELSE IF exec_status_code = 3 THEN ("failure_type" :> "worker_internal_error")
    ELSE [f \in {} |-> Null]

\* ResultFields with the success branch leaving "error" as it was.
ResultFieldsKeepError(exec_status_code, output, error_details) ==
    IF exec_status_code = 0
    THEN [status |-> "completed", output |-> Or(output, "")]
    ELSE [status |-> "failed", error |-> Or(error_details, "Unknown error"),
          output |-> Or(output, "")]

\* ResultFields passing the output on as it is, None included.
ResultFieldsOutputAsIs(exec_status_code, output, error_details) ==
    IF exec_status_code = 0
    THEN [status |-> "completed", output |-> output, error |-> Null]
    ELSE [status |-> "failed", error |-> Or(error_details, "Unknown error"),
          output |-> output]

ResultFields(exec_status_code, output, error_details) ==
    IF exec_status_code = 0
    THEN [status |-> "completed", output |-> Or(output, ""), error |-> Null]
    ELSE [status |-> "failed", error |-> Or(error_details, "Unknown error"),
          output |-> Or(output, "")]

\* _build_final_update_data at clock reading t.
BuildFinalUpdateData(exec_status_code, output, error_details, current_status, t) ==
    ("completed_at" :> t)
    @@ FailureTypeOf(exec_status_code)
    @@ ResultFields(exec_status_code, output, error_details)
    @@ (IF StartsWithProcessing(current_status)
        THEN ("processing_started_at" :> t) ELSE [f \in {} |-> Null])
    @@ ("updated_at" :> t)

\* transaction.update(job_ref, update_data): the named fields are replaced.
UpdateJobInTransaction(doc, update_data) ==
    [f \in Fields |-> IF f \in DOMAIN update_data THEN update_data[f] ELSE doc[f]]

(***************************************************************************)
(* Paths, as pathlib sees them: the tuple of parts, "/" first when the     *)
(* path is absolute.                                                       *)
(***************************************************************************)
\* The temporary directory of an invocation (job_<job_id>_xxxx under /tmp).
WorkspaceExecDir == <<"/", "tmp", "job_j1">>

IsAbsolute(p) == Len(p) > 0 /\ p[1] = "/"

\* Path.__truediv__: an absolute right operand replaces the left one.
Join(base, rel) == IF IsAbsolute(rel) THEN rel ELSE base \o rel

\* str.lstrip('/') followed by parsing: the leading "/" part is dropped.
LStripSlash(p) == IF IsAbsolute(p) THEN Tail(p) ELSE p

\* The file the operating system reaches: ".." steps to the parent (and
\* stays at the root).
RECURSIVE Resolve(_, _)
Resolve(done, rest) ==
    IF rest = <<>> THEN done
    ELSE IF rest[1] = ".."
    THEN Resolve(IF Len(done) > 1 THEN SubSeq(done, 1, Len(done) - 1) ELSE done,
                 Tail(rest))
    ELSE Resolve(Append(done, rest[1]), Tail(rest))

Normalize(p) == Resolve(<<>>, p)

\* p lies strictly inside root.
IsInside(root, p) ==
    Len(p) > Len(root) /\ SubSeq(p, 1, Len(root)) = root

\* local_file = workspace_exec_dir / relative_path
LocalFile(relative_path) == Join(WorkspaceExecDir, relative_path)

\* str(path): the parts joined by "/".
RECURSIVE PathStr(_)
PathStr(p) ==
    IF p = <<>> THEN "."
    ELSE IF Len(p) = 1 THEN p[1]
    ELSE IF p[1] = "/" THEN "/" \o PathStr(Tail(p))
    ELSE p[1] \o "/" \o PathStr(Tail(p))

\* TemporaryDirectory.__exit__: the directory and everything under it goes.
Cleanup(files) == {p \in files : ~IsInside(WorkspaceExecDir, p)}

(***************************************************************************)
(* Task payloads.  The direct payload's code and the workspace's script    *)
(* show only through the child termination, chosen when the runner runs.   *)
(***************************************************************************)
FileA == [r2_object_key |-> "w/a.py", file_path |-> <<"a.py">>]
FileLib == [r2_object_key |-> "w/lib.py", file_path |-> <<"pkg", "lib.py">>]
FileNoKey == [r2_object_key |-> "", file_path |-> <<"b.py">>]
FileNoPath == [r2_object_key |-> "w/c.py", file_path |-> <<>>]
FileParent == [r2_object_key |-> "w/x.py", file_path |-> <<"..", "x.py">>]
FileAbsolute == [r2_object_key |-> "w/x.py", file_path |-> <<"/", "etc", "x.py">>]

DirectPayloads ==
    { [kind |-> "direct", files |-> <<>>, entrypoint_file |-> <<>>] }

AuthPayloads ==
    { [kind |-> "auth", files |-> <<>>, entrypoint_file |-> <<"a.py">>],
      [kind |-> "auth", files |-> <<FileA>>, entrypoint_file |-> <<"a.py">>],
      [kind |-> "auth", files |-> <<FileA, FileLib>>,
       entrypoint_file |-> <<"a.py">>],
      [kind |-> "auth", files |-> <<FileA>>, entrypoint_file |-> <<"missing.py">>],
      [kind |-> "auth", files |-> <<FileNoKey, FileA>>,
       entrypoint_file |-> <<"/", "a.py">>],
      [kind |-> "auth", files |-> <<FileA, FileNoPath, FileLib>>,
       entrypoint_file |-> <<"a.py">>],
      [kind |-> "auth", files |-> <<FileParent>>, entrypoint_file |-> <<"a.py">>],
      [kind |-> "auth", files |-> <<FileParent>>,
       entrypoint_file |-> <<"..", "x.py">>],
      [kind |-> "auth", files |-> <<FileAbsolute>>,
       entrypoint_file |-> <<"a.py">>] }

Payloads == DirectPayloads \cup AuthPayloads

NoResponse == [status_code |-> 0, keys |-> {}]

\* HTTPException(status_code=..., detail=...)
HTTPException(status_code) == [status_code |-> status_code, keys |-> {"detail"}]

\* A returned dict is sent with status 200.
Returned(keys) == [status_code |-> 200, keys |-> keys]

\* An invocation before its task is delivered.
Idle ==
    [pc |-> "idle", idx |-> 0, tmp |-> FALSE, files |-> {},
     result |-> [output |-> Null, error |-> Null, code |-> 0],
     final |-> [f \in {} |-> Null], exc |-> Null, response |-> NoResponse,
     \* history of the invocation
     entry_terminal |-> FALSE, ran |-> 0, child |-> "none",
     final_write |-> "none",
     except_write |-> "none", exit |-> "none",
     \* when the task was delivered; the writes that succeeded (by the status
     \* written) and the other steps taken, in order
     delivered_at |-> 0, steps |-> <<>>,
     \* the keys given to download_file, in order
     downloaded |-> <<>>]

(***************************************************************************)
(* State.                                                                  *)
(***************************************************************************)
VARIABLES
    task,               \* the payload of the job's task, as it was enqueued
    firestore_client,   \* configs.firestore_client is not None
    s3_client,          \* configs.s3_client is not None
    job,                \* the Firestore document of the job
    now,                \* the wall clock now_iso8601() reads
    inv,                \* the handler invocations, one per delivery
    \* rag-indexing-service
    bucket,             \* the objects of the R2 bucket, by (workspace, path)
    table,              \* the rows of the LanceDB table
    indexing,           \* the call of process_files_for_indexing in progress
    index_job,          \* handle_cloud_task of the indexing service, its job
    \* rag-query-service
    agent,              \* the run of the agent graph in progress
    db_connection,      \* dependencies.db_connection: the workspace it is for
    event_loop,         \* the handler coroutine the event loop is running
    query_tasks,        \* the invocations of handle_cloud_task (query)
    \* python-worker-service, worker.py (the Datastore variant)
    datastore_client,   \* datastore_client is not None
    entity,             \* the Datastore entity of the job
    deliveries,         \* the invocations of execute_task_endpoint
    \* the functions of the worker taken alone
    call,               \* one application of a function: arguments, result
    \* server/worker.py (the Pub/Sub worker)
    messages,           \* the received messages and their callbacks
    exec_results        \* the entities of kind ExecResult in Datastore

workerVars == <<task, firestore_client, s3_client, job, now, inv>>
indexVars == <<bucket, table, indexing, index_job>>
queryVars == <<db_connection, event_loop, query_tasks>>
agentVars == <<agent, queryVars>>
datastoreVars == <<datastore_client, entity, deliveries>>
pubsubVars == <<messages, exec_results>>
callVars == <<call, pubsubVars>>
otherVars == <<indexVars, agentVars, datastoreVars, callVars>>
vars == <<workerVars, indexVars, agentVars, datastoreVars, callVars>>

Terminal(status) == status \in {"completed", "failed"}

\* The other services are not part of a behaviour of the worker service.
IndexOff ==
    bucket = <<>> /\ table = <<>> /\ indexing = <<>> /\ index_job = <<>>
QueryOff ==
    db_connection = "<null>" /\ event_loop = 0 /\ query_tasks = <<>>
AgentOff == agent = <<>> /\ QueryOff
DatastoreOff == datastore_client = FALSE /\ entity = <<>> /\ deliveries = <<>>
PubSubOff == messages = <<>> /\ exec_results = <<>>
CallOff == call = <<>> /\ PubSubOff

Init ==
    /\ task \in Payloads
    /\ firestore_client \in BOOLEAN
    /\ s3_client \in BOOLEAN
    /\ job = InitialJob
    /\ now = 1
    /\ inv = [w \in Workers |-> Idle]
    /\ IndexOff
    /\ AgentOff
    /\ DatastoreOff
    /\ CallOff

\* The wall clock advances.
Tick ==
    /\ now < MaxClock
    /\ now' = now + 1
    /\ UNCHANGED <<task, firestore_client, s3_client, job, inv>>
    /\ UNCHANGED otherVars

\* The queue delivers the job's task (again): a handler invocation starts.
Deliver(w) ==
    /\ inv[w].pc = "idle"
    /\ \A v \in Workers : v < w => inv[v].pc # "idle"
    /\ inv' = [inv EXCEPT ![w] =
                 [@ EXCEPT !.pc = "entry",
                           !.entry_terminal = Terminal(job.status),
                           !.delivered_at = now]]
    /\ UNCHANGED <<task, firestore_client, s3_client, job, now>>
    /\ UNCHANGED otherVars

\* The invocation ends with a response; its locals are gone (the
\* classification is kept as history).
Respond(i, response, exit) ==
    [i EXCEPT !.pc = "done", !.response = response,
              !.exit = IF @ = "none" THEN exit ELSE @,
              !.idx = 0, !.exc = Null, !.final = [f \in {} |-> Null],
              !.result = [output |-> Null, error |-> Null, code |-> @.code]]

(***************************************************************************)
(* /execute: execute_direct_task                                           *)
(***************************************************************************)
\* Line 115: "if not configs.firestore_client".
DirectClientsMissing == ~firestore_client

\* Lines 115-124: client check, then the write of processing_direct.
DirectInitialStatus(w) ==
    /\ inv[w].pc = "entry"
    /\ task.kind = "direct"
    /\ IF DirectClientsMissing
       THEN /\ inv' = [inv EXCEPT ![w] =
                         Respond(@, HTTPException(503), "unavailable")]
            /\ UNCHANGED job
       ELSE \E ok \in BOOLEAN :
              IF ok
              THEN /\ job' = UpdateJobInTransaction(job,
                                StatusUpdate("processing_direct", now))
                   /\ inv' = [inv EXCEPT ![w] =
                                [@ EXCEPT !.pc = "run",
                                   !.steps = Append(@, "processing_direct")]]
              ELSE /\ inv' = [inv EXCEPT ![w] =
                                Respond(@, HTTPException(500), "initial_write_failed")]
                   /\ UNCHANGED job
    /\ UNCHANGED <<task, firestore_client, s3_client, now>>
    /\ UNCHANGED otherVars

\* Lines 126-127: the runner, then the final delta.
DirectRun(w) ==
    /\ inv[w].pc = "run"
    /\ task.kind = "direct"
    /\ \E proc \in Procs :
         LET r == ExecutePythonCodeDirect(proc) IN
         inv' = [inv EXCEPT ![w] =
                   [@ EXCEPT !.pc = "final", !.result = r, !.ran = @ + 1,
                             !.child = proc.kind,
                             !.steps = Append(@, "run"),
                             !.final = BuildFinalUpdateData(r.code, r.output,
                                          r.error, "processing_direct", now)]]
    /\ UNCHANGED <<task, firestore_client, s3_client, job, now>>
    /\ UNCHANGED otherVars

\* DirectResponse answering 500 whenever the run did not succeed.
DirectResponseErrorOnFailure(exec_status_code, saved) ==
    IF exec_status_code = 0 THEN Returned({"job_id", "message"})
    ELSE HTTPException(500)

\* The response of /execute after the final write was attempted.
DirectResponse(exec_status_code, saved) == Returned({"job_id", "message"})

\* Lines 129-136: the final write; a failure is logged and passed over.
DirectFinal(w) ==
    /\ inv[w].pc = "final"
    /\ task.kind = "direct"
    /\ \E ok \in BOOLEAN :
         /\ job' = IF ok THEN UpdateJobInTransaction(job, inv[w].final) ELSE job
         /\ inv' = [inv EXCEPT ![w] =
                      Respond([@ EXCEPT !.final_write = IF ok THEN "ok" ELSE "failed",
                                  !.steps = IF ok THEN Append(@, inv[w].final.status)
                                            ELSE @],
                              DirectResponse(inv[w].result.code, ok), "returned")]
    /\ UNCHANGED <<task, firestore_client, s3_client, now>>
    /\ UNCHANGED otherVars

(***************************************************************************)
(* /execute_auth: execute_auth_task                                        *)
(***************************************************************************)
\* LeaveScope without the context manager's cleanup.
LeaveScopeNoCleanup(i) == i

\* Leaving the "with tempfile.TemporaryDirectory" block, by return or raise.
LeaveScope(i) == [i EXCEPT !.tmp = FALSE, !.files = Cleanup(@)]

\* Raise with no catch-all: the exception goes straight to the caller.
RaiseWithoutWrite(i, message, exit) ==
    Respond(LeaveScope(i), HTTPException(500), exit)

\* An exception inside the outer try: the scope is left, then line 215.
Raise(i, message, exit) ==
    [LeaveScope(i) EXCEPT !.pc = "except", !.exc = message, !.exit = exit]

StoreError == "Firestore update failed for job j1"

\* AuthClientsMissing forgetting the object-store client.
AuthClientsMissingFirestoreOnly == ~firestore_client

\* Lines 142-150: "if not configs.firestore_client", "if not configs.s3_client".
AuthClientsMissing == ~firestore_client \/ ~s3_client

\* Lines 142-158: client checks, then the write of processing_auth_workspace.
AuthInitialStatus(w) ==
    /\ inv[w].pc = "entry"
    /\ task.kind = "auth"
    /\ IF AuthClientsMissing
       THEN /\ inv' = [inv EXCEPT ![w] =
                         Respond(@, HTTPException(503), "unavailable")]
            /\ UNCHANGED job
       ELSE \E ok \in BOOLEAN :
              IF ok
              THEN /\ job' = UpdateJobInTransaction(job,
                                StatusUpdate("processing_auth_workspace", now))
                   /\ inv' = [inv EXCEPT ![w] =
                                [@ EXCEPT !.pc = "mktemp",
                                   !.steps = Append(@, "processing_auth_workspace")]]
              ELSE /\ inv' = [inv EXCEPT ![w] =
                                Respond(@, HTTPException(500), "initial_write_failed")]
                   /\ UNCHANGED job
    /\ UNCHANGED <<task, firestore_client, s3_client, now>>
    /\ UNCHANGED otherVars

\* Lines 162-164: the temporary directory is created.
AuthEnterScope(w) ==
    /\ inv[w].pc = "mktemp"
    /\ inv' = [inv EXCEPT ![w] =
                 [@ EXCEPT !.pc = "fetching", !.tmp = TRUE]]
    /\ UNCHANGED <<task, firestore_client, s3_client, job, now>>
    /\ UNCHANGED otherVars

NoFilesMessage == "No files found in job payload manifest to download."

\* AuthFetching with no check of the manifest.
AuthFetchingWithoutManifestCheck(w) ==
    /\ inv[w].pc = "fetching"
    /\ \E ok \in BOOLEAN :
         IF ok
         THEN /\ job' = UpdateJobInTransaction(job,
                           StatusUpdate("fetching_from_r2", now))
              /\ inv' = [inv EXCEPT ![w] =
                           [@ EXCEPT !.pc = "download", !.idx = 1,
                              !.steps = Append(@, "fetching_from_r2")]]
         ELSE /\ inv' = [inv EXCEPT ![w] =
                           Raise(@, StoreError, "raised_fetching")]
              /\ UNCHANGED job
    /\ UNCHANGED <<task, firestore_client, s3_client, now>>
    /\ UNCHANGED otherVars

\* Lines 165-174: the write of fetching_from_r2, then the manifest check.
AuthFetching(w) ==
    /\ inv[w].pc = "fetching"
    /\ \E ok \in BOOLEAN :
         IF ok
         THEN /\ job' = UpdateJobInTransaction(job,
                           StatusUpdate("fetching_from_r2", now))
              /\ inv' = [inv EXCEPT ![w] =
                   IF task.files = <<>>
                   THEN [@ EXCEPT !.pc = "final",
                            !.steps = Append(@, "fetching_from_r2"),
                            !.final = BuildFinalUpdateData(3, Null, NoFilesMessage,
                                         "processing_auth_workspace", now)]
                   ELSE [@ EXCEPT !.pc = "download", !.idx = 1,
                            !.steps = Append(@, "fetching_from_r2")]]
         ELSE /\ inv' = [inv EXCEPT ![w] =
                           Raise(@, StoreError, "raised_fetching")]
              /\ UNCHANGED job
    /\ UNCHANGED <<task, firestore_client, s3_client, now>>
    /\ UNCHANGED otherVars

\* AuthDownload leaving the loop at an entry with no key or no path.
AuthDownloadStoppingAtEmptyEntry(w) ==
    /\ inv[w].pc = "download"
    /\ inv[w].idx <= Len(task.files)
    /\ LET f == task.files[inv[w].idx] IN
       IF f.r2_object_key = "" \/ f.file_path = <<>>
       THEN inv' = [inv EXCEPT ![w].idx = Len(task.files) + 1]
       ELSE \E ok \in BOOLEAN :
              IF ok
              THEN inv' = [inv EXCEPT ![w] =
                             [@ EXCEPT !.idx = @ + 1,
                                !.steps = Append(@, "download"),
                                !.downloaded = Append(@, f.r2_object_key),
                                !.files = @ \cup {Normalize(LocalFile(f.file_path))}]]
              ELSE inv' = [inv EXCEPT ![w] =
                             Raise([@ EXCEPT !.steps = Append(@, "download"),
                                       !.downloaded = Append(@, f.r2_object_key)],
                                   "download failed", "raised_download")]
    /\ UNCHANGED <<task, firestore_client, s3_client, job, now>>
    /\ UNCHANGED otherVars

\* Lines 177-188: one manifest entry.
AuthDownload(w) ==
    /\ inv[w].pc = "download"
    /\ inv[w].idx <= Len(task.files)
    /\ LET f == task.files[inv[w].idx] IN
       IF f.r2_object_key = "" \/ f.file_path = <<>>
       THEN inv' = [inv EXCEPT ![w].idx = @ + 1]
       ELSE \E ok \in BOOLEAN :
              IF ok
              THEN inv' = [inv EXCEPT ![w] =
                             [@ EXCEPT !.idx = @ + 1,
                                !.steps = Append(@, "download"),
                                !.downloaded = Append(@, f.r2_object_key),
                                !.files = @ \cup {Normalize(LocalFile(f.file_path))}]]
              ELSE inv' = [inv EXCEPT ![w] =
                             Raise([@ EXCEPT !.steps = Append(@, "download"),
                                       !.downloaded = Append(@, f.r2_object_key)],
                                   "download failed", "raised_download")]
    /\ UNCHANGED <<task, firestore_client, s3_client, job, now>>
    /\ UNCHANGED otherVars

\* entrypoint_script_local_path
EntrypointLocalPath(entrypoint_file) ==
    Join(WorkspaceExecDir, LStripSlash(entrypoint_file))

EntrypointMessage(entrypoint_file) ==
    "Entrypoint '" \o PathStr(entrypoint_file)
        \o "' not found in downloaded workspace. Checked path: "
        \o PathStr(EntrypointLocalPath(entrypoint_file))

\* Lines 190-199: the entrypoint check after the last download.
AuthCheckEntrypoint(w) ==
    /\ inv[w].pc = "download"
    /\ inv[w].idx > Len(task.files)
    /\ LET ep == task.entrypoint_file IN
       inv' = [inv EXCEPT ![w] =
          IF Normalize(EntrypointLocalPath(ep)) \notin inv[w].files
          THEN [@ EXCEPT !.pc = "final",
                   !.steps = Append(@, "entrypoint_check"),
                   !.final = BuildFinalUpdateData(3, Null, EntrypointMessage(ep),
                                "processing_auth_workspace", now)]
          ELSE [@ EXCEPT !.pc = "running",
                   !.steps = Append(@, "entrypoint_check")]]
    /\ UNCHANGED <<task, firestore_client, s3_client, job, now>>
    /\ UNCHANGED otherVars

\* AuthRunningStatus going on to the runner when the write failed.
AuthRunningStatusIgnoringFailure(w) ==
    /\ inv[w].pc = "running"
    /\ \E ok \in BOOLEAN :
         /\ job' = IF ok THEN UpdateJobInTransaction(job,
                                 StatusUpdate("running_auth_workspace", now))
                   ELSE job
         /\ inv' = [inv EXCEPT ![w] =
                      [@ EXCEPT !.pc = "exec",
                         !.steps = IF ok THEN Append(@, "running_auth_workspace")
                                   ELSE @]]
    /\ UNCHANGED <<task, firestore_client, s3_client, now>>
    /\ UNCHANGED otherVars

\* Line 202: the write of running_auth_workspace.
AuthRunningStatus(w) ==
    /\ inv[w].pc = "running"
    /\ \E ok \in BOOLEAN :
         IF ok
         THEN /\ job' = UpdateJobInTransaction(job,
                           StatusUpdate("running_auth_workspace", now))
              /\ inv' = [inv EXCEPT ![w] =
                           [@ EXCEPT !.pc = "exec",
                              !.steps = Append(@, "running_auth_workspace")]]
         ELSE /\ inv' = [inv EXCEPT ![w] =
                           Raise(@, StoreError, "raised_running")]
              /\ UNCHANGED job
    /\ UNCHANGED <<task, firestore_client, s3_client, now>>
    /\ UNCHANGED otherVars

\* python3 <entrypoint_file> with cwd = the workspace: the terminations the
\* child can have.  A script that is not there makes python3 exit with 2.
ScriptProcs(entrypoint_file, files) ==
    IF Normalize(Join(WorkspaceExecDir, entrypoint_file)) \in files
    THEN Procs
    ELSE { [kind |-> "exit", returncode |-> 2, stdout |-> "",
            stderr |-> "python3: can't open file"],
           [kind |-> "oserror", returncode |-> 0, stdout |-> "", stderr |-> ""] }

\* Lines 205-209: the runner, then the final delta.
AuthRun(w) ==
    /\ inv[w].pc = "exec"
    /\ \E proc \in ScriptProcs(task.entrypoint_file, inv[w].files) :
         LET r == ExecutePythonScriptInDir(proc) IN
         inv' = [inv EXCEPT ![w] =
                   [@ EXCEPT !.pc = "final", !.result = r, !.ran = @ + 1,
                             !.child = proc.kind,
                             !.steps = Append(@, "run"),
                             !.final = BuildFinalUpdateData(r.code, r.output,
                                          r.error, "processing_auth_workspace", now)]]
    /\ UNCHANGED <<task, firestore_client, s3_client, job, now>>
    /\ UNCHANGED otherVars

\* Lines 172, 199, 213: the dict returned once the final write succeeded.
AuthResponse(ran) ==
    IF ran = 0 THEN Returned({"job_id", "message", "final_status"})
    ELSE Returned({"job_id", "message"})

\* AuthFinal raising after its write succeeded.
AuthFinalRaisingAfterWrite(w) ==
    /\ inv[w].pc = "final"
    /\ task.kind = "auth"
    /\ \E ok \in BOOLEAN :
         /\ job' = IF ok THEN UpdateJobInTransaction(job, inv[w].final) ELSE job
         /\ inv' = [inv EXCEPT ![w] =
                      Raise([@ EXCEPT !.final_write = IF ok THEN "ok" ELSE "failed",
                                !.steps = IF ok THEN Append(@, inv[w].final.status)
                                          ELSE @],
                            StoreError, "raised_final")]
    /\ UNCHANGED <<task, firestore_client, s3_client, now>>
    /\ UNCHANGED otherVars

\* Lines 171, 198, 210: the final write inside the scope.
AuthFinal(w) ==
    /\ inv[w].pc = "final"
    /\ task.kind = "auth"
    /\ \E ok \in BOOLEAN :
         IF ok
         THEN /\ job' = UpdateJobInTransaction(job, inv[w].final)
              /\ inv' = [inv EXCEPT ![w] =
                           Respond(LeaveScope([@ EXCEPT !.final_write = "ok",
                                      !.steps = Append(@, inv[w].final.status)]),
                                   AuthResponse(inv[w].ran), "returned")]
         ELSE /\ inv' = [inv EXCEPT ![w] =
                           Raise([@ EXCEPT !.final_write = "failed"], StoreError,
                                 "raised_final")]
              /\ UNCHANGED job
    /\ UNCHANGED <<task, firestore_client, s3_client, now>>
    /\ UNCHANGED otherVars

\* Lines 215-224: the catch-all writes an internal failure and raises 500.
AuthExcept(w) ==
    /\ inv[w].pc = "except"
    /\ \E ok \in BOOLEAN :
         LET data == BuildFinalUpdateData(3, Null,
                        "Unhandled worker exception: " \o inv[w].exc,
                        "processing_auth_workspace", now) IN
         /\ job' = IF ok THEN UpdateJobInTransaction(job, data) ELSE job
         /\ inv' = [inv EXCEPT ![w] =
                      Respond([@ EXCEPT !.final = data,
                                  !.except_write = IF ok THEN "ok" ELSE "failed",
                                  !.steps = IF ok THEN Append(@, data.status)
                                            ELSE @],
                              HTTPException(500), "raised")]
    /\ UNCHANGED <<task, firestore_client, s3_client, now>>
    /\ UNCHANGED otherVars

Next ==
    \/ Tick
    \/ \E w \in Workers :
         \/ Deliver(w)
         \/ DirectInitialStatus(w)
         \/ DirectRun(w)
         \/ DirectFinal(w)
         \/ AuthInitialStatus(w)
         \/ AuthEnterScope(w)
         \/ AuthFetching(w)
         \/ AuthDownload(w)
         \/ AuthCheckEntrypoint(w)
         \/ AuthRunningStatus(w)
         \/ AuthRun(w)
         \/ AuthFinal(w)
         \/ AuthExcept(w)

Spec == Init /\ [][Next]_vars

(***************************************************************************)
(* Properties.                                                             *)
(***************************************************************************)
\* The transition table of the job state machine.
AllowedNext(status) ==
    CASE status = "queued" ->
           {"processing_direct", "processing_auth_workspace"}
      [] status = "processing_auth_workspace" -> {"fetching_from_r2", "failed"}
      [] status = "fetching_from_r2" -> {"running_auth_workspace", "failed"}
      [] status = "running_auth_workspace" -> {"completed", "failed"}
      [] status = "processing_direct" -> {"completed", "failed"}
      [] OTHER -> {}

FailureTypes == {"user_code_error", "timeout", "worker_internal_error"}

\* The invocation ran the user program and its terminal write succeeded.
Committed(i) == i.ran > 0 /\ i.final_write = "ok"

\* C1: every change of the job's status goes from its source to a target
\* that the transition table allows for that source.
C1_TransitionsAllowed ==
    [][job'.status # job.status => job'.status \in AllowedNext(job.status)]_vars

\* C2: once the job document is terminal (completed or failed), no field of
\* it changes any more.
C2_TerminalImmutable ==
    [][Terminal(job.status) => job' = job]_vars

\* C3: an invocation whose task was delivered for an already terminal job
\* never invokes the runner, leaves the stored output unchanged in every
\* step it takes, and answers 200.
C3_ReplayIsNoOp ==
    [][\A w \in Workers :
         (inv[w].entry_terminal /\ inv'[w] # inv[w])
            => /\ inv'[w].ran = 0
               /\ job'.output = job.output
               /\ (inv'[w].pc = "done" => inv'[w].response.status_code = 200)]_vars

\* C4: over all deliveries of the job_id, at most one invocation runs the
\* user program and commits its result with a terminal write.
C4_AtMostOneCommittedExecution ==
    Cardinality({w \in Workers : Committed(inv[w])}) <= 1

\* C5: a completed job has error = null and output not null; a failed job
\* has error not null and a failure_type among the three named ones.
C5_TerminalShape ==
    /\ job.status = "completed" => (job.error = Null /\ job.output # Null)
    /\ job.status = "failed" =>
         (job.error # Null /\ job.failure_type \in FailureTypes)

\* A job completed by a later delivery after an earlier one had failed it.
C5_Witness ==
    /\ job.status = "completed"
    /\ job.failure_type \in FailureTypes
    /\ \E w \in Workers : inv[w].pc = "done" /\ Committed(inv[w])
                          /\ inv[w].result.code # 0

\* C6: an invocation that ran the user program and whose terminal write
\* failed answers with a 5xx status, never 2xx.
C6_FailedTerminalWriteIs5xx ==
    \A w \in Workers :
      (inv[w].pc = "done" /\ inv[w].ran > 0 /\ inv[w].final_write = "failed")
         => inv[w].response.status_code >= 500

C8_NoPartialState ==
    ~Terminal(job.status) =>
       (job.completed_at = 0 /\ job.output = Null /\ job.error = Null)

\* C9: every file a workspace invocation has written lies inside the
\* temporary workspace root.
C9_DownloadsInsideRoot ==
    \A w \in Workers :
      \A p \in inv[w].files : IsInside(WorkspaceExecDir, p)

EntrypointUnderRoot(w) ==
    LET p == Normalize(EntrypointLocalPath(task.entrypoint_file)) IN
    p \in inv[w].files /\ IsInside(WorkspaceExecDir, p)

\* C11: in the workspace path, an invocation whose entrypoint is not a regular
\* file under the workspace root after the downloads neither writes
\* running_auth_workspace nor invokes the runner, and the terminal delta it
\* builds is failed / worker_internal_error with the message
\* "Entrypoint '<entrypoint_file>' not found ...".
C11_MissingEntrypointFails ==
    \A w \in Workers :
      task.kind = "auth" =>
        /\ inv[w].pc \in {"running", "exec"} => EntrypointUnderRoot(w)
        /\ (inv[w].pc = "final" /\ inv[w].ran = 0 /\ task.files # <<>>) =>
             /\ inv[w].final.status = "failed"
             /\ inv[w].final.failure_type = "worker_internal_error"
             /\ inv[w].final.error = EntrypointMessage(task.entrypoint_file)

\* C12: when a required backend is unavailable at entry (Firestore for
\* /execute; Firestore or the object store for /execute_auth) every handler
\* invocation answers 503, the job document is never written and the user
\* program is never run.
C12_UnavailableIs503 ==
    (IF task.kind = "direct" THEN ~firestore_client
     ELSE ~firestore_client \/ ~s3_client) =>
        /\ job = InitialJob
        /\ \A w \in Workers :
             /\ inv[w].ran = 0
             /\ inv[w].pc \in {"idle", "entry", "done"}
             /\ inv[w].pc = "done" => inv[w].response = HTTPException(503)

\* An /execute_auth invocation was answered while only the object store was
\* unavailable.
C12_Witness ==
    /\ task.kind = "auth" /\ firestore_client /\ ~s3_client
    /\ \E w \in Workers :
         inv[w].pc = "done" /\ inv[w].response.status_code = 503

\* C13: in every reachable state of the job document failure_type is set if
\* and only if status = failed.
C13_FailureTypeIffFailed ==
    (job.failure_type # Null) <=> (job.status = "failed")

\* C14: in every reachable state of the job document error is non-null if and
\* only if status = failed.
C14_ErrorIffFailed ==
    (job.error # Null) <=> (job.status = "failed")

\* C15: in every reachable state of the job document completed_at is set if
\* and only if the status is terminal, and whenever it is set
\* completed_at >= processing_started_at.
C15_CompletedAtIffTerminal ==
    /\ (job.completed_at # 0) <=> Terminal(job.status)
    /\ job.completed_at # 0 => job.completed_at >= job.processing_started_at

\* The final write of /execute by invocation w, after its child exceeded the
\* deadline, has just succeeded.
TimedOutWrite(w) ==
    /\ task.kind = "direct"
    /\ inv[w].pc = "final" /\ inv[w].child = "timeout"
    /\ inv'[w].final_write = "ok"

WorkerOff ==
    /\ task = [kind |-> "direct", files |-> <<>>, entrypoint_file |-> <<>>]
    /\ firestore_client = FALSE
    /\ s3_client = FALSE
    /\ job = InitialJob
    /\ now = 1
    /\ inv = [w \in Workers |-> Idle]

MaxRuns == 2
MaxEdits == 1

Workspaces == {"W1", "W2"}

\* A file path, split at its last dot.
APy == [stem |-> "a", ext |-> ".py"]
BJs == [stem |-> "b", ext |-> ".js"]
Readme == [stem |-> "README", ext |-> ".md"]
IndexFiles == {APy, BJs, Readme}

\* The "files" lists of the indexing payloads.
FileLists == { <<APy, Readme>>, <<APy, BJs>>, <<APy, APy>> }

\* Line 180: the extensions of the files that are indexed.
CodeExtensions ==
    {".py", ".js", ".ts", ".jsx", ".tsx", ".go", ".java", ".cpp", ".c",
     ".rs", ".rb", ".php"}

\* any(file_path.endswith(ext) for ext in [...])
IsCodeFile(file_path) == \E ext \in CodeExtensions : file_path.ext = ext

FilePathStr(file_path) == file_path.stem \o file_path.ext

\* Line 185: object_key
ObjectKey(workspace_id, file_path) ==
    "workspaces/" \o workspace_id \o "/files/" \o FilePathStr(file_path)

\* The objects the service reads: only code files are downloaded.
ObjectKeys ==
    { ObjectKey(ws, f) : ws \in Workspaces,
                         f \in { g \in IndexFiles : IsCodeFile(g) } }

\* The contents an object can have; Null stands for an object that is not
\* in the bucket, "  " for a file of white space only.
Contents == {Null, "  ", "v1", "v2"}

\* file_content.strip()
Strip(content) == IF content = "  " THEN "" ELSE content

\* CodeSnippet(vector, text, file_path, workspace_id); by is the call that
\* added the row.
CodeSnippet(text, file_path, workspace_id, by) ==
    [text |-> text, file_path |-> FilePathStr(file_path),
     workspace_id |-> workspace_id, by |-> by]

\* table.delete leaving every row in place.
TableDeleteNothing(rows, file_path, workspace_id) == rows

\* Line 210: table.delete("file_path = '...' AND workspace_id = '...'")
TableDelete(rows, file_path, workspace_id) ==
    { r \in rows : ~(r.file_path = FilePathStr(file_path)
                      /\ r.workspace_id = workspace_id) }

\* Line 213: table.add([code_snippet])
TableAdd(rows, code_snippet) == rows \cup {code_snippet}

NoRun == [workspace_id |-> Null, file_paths |-> <<>>, outcomes |-> <<>>,
          after |-> {}]

\* No call of process_files_for_indexing has been made.
IndexIdle ==
    [pc |-> "idle", run |-> 0, workspace_id |-> Null, file_paths |-> <<>>,
     i |-> 1, indexed_files |-> <<>>,
     \* history
     before |-> {}, outcomes |-> <<>>, prev |-> NoRun, edited |-> FALSE,
     edits |-> 0]

IndexInit ==
    /\ bucket = [k \in ObjectKeys |-> "v1"]
    /\ table = [exists |-> FALSE, rows |-> {}]
    /\ indexing = IndexIdle
    /\ index_job = <<>>
    /\ WorkerOff
    /\ AgentOff
    /\ DatastoreOff
    /\ CallOff

\* An object of the bucket is written or removed between two calls.
PutObject(k, content) ==
    /\ indexing.pc = "returned"
    /\ indexing.run < MaxRuns
    /\ indexing.edits < MaxEdits
    /\ bucket[k] # content
    /\ bucket' = [bucket EXCEPT ![k] = content]
    /\ indexing' = [indexing EXCEPT !.edited = TRUE, !.edits = @ + 1]
    /\ UNCHANGED <<table, workerVars, agentVars, datastoreVars, callVars>>

\* Lines 160-175: the call starts; the table is created if it is missing.
StartIndexing(workspace_id, file_paths) ==
    /\ indexing.pc # "loop"
    /\ indexing.run < MaxRuns
    /\ table' = [table EXCEPT !.exists = TRUE]
    /\ indexing' =
         [indexing EXCEPT
            !.pc = "loop", !.run = @ + 1, !.workspace_id = workspace_id,
            !.file_paths = file_paths, !.i = 1, !.indexed_files = <<>>,
            !.before = table.rows, !.outcomes = <<>>,
            !.prev = IF indexing.pc = "returned"
                     THEN [workspace_id |-> indexing.workspace_id,
                           file_paths |-> indexing.file_paths,
                           outcomes |-> indexing.outcomes,
                           after |-> table.rows]
                     ELSE NoRun,
            !.edited = FALSE]
    /\ UNCHANGED <<bucket, workerVars, agentVars, datastoreVars, callVars>>

\* The ways one iteration of the loop can go for a file that is downloaded
\* with a non-blank content: embed_documents or table.delete raises, table.add
\* raises, or nothing does.
CallOutcomes == {"failed_before_add", "add_failed", "indexed"}

\* Lines 177-221: one iteration of the loop over file_paths.
IndexFile ==
    /\ indexing.pc = "loop"
    /\ indexing.i <= Len(indexing.file_paths)
    /\ LET file_path == indexing.file_paths[indexing.i]
           ws == indexing.workspace_id
           file_content == bucket[ObjectKey(ws, file_path)]
           Step(outcome, rows, indexed) ==
               /\ table' = [table EXCEPT !.rows = rows]
               /\ indexing' =
                    [indexing EXCEPT
                       !.i = @ + 1,
                       !.outcomes = Append(@, outcome),
                       !.indexed_files =
                          IF indexed THEN Append(@, file_path) ELSE @]
       IN
       IF ~IsCodeFile(file_path)
       THEN Step("not_code", table.rows, FALSE)
       ELSE \/ Step("download_failed", table.rows, FALSE)
            \/ /\ file_content # Null
               /\ IF Strip(file_content) = ""
                  THEN Step("empty", table.rows, FALSE)
                  ELSE \E outcome \in CallOutcomes :
                         LET deleted == TableDelete(table.rows, file_path, ws)
                             code_snippet ==
                                 CodeSnippet(file_content, file_path, ws,
                                             indexing.run)
                         IN
                         CASE outcome = "indexed" ->
                                Step(outcome, TableAdd(deleted, code_snippet), TRUE)
                           [] outcome = "add_failed" ->
                                Step(outcome, deleted, FALSE)
                           [] OTHER -> Step(outcome, table.rows, FALSE)
    /\ UNCHANGED <<bucket, workerVars, agentVars, datastoreVars, callVars>>

\* Line 223: return indexed_files
FinishIndexing ==
    /\ indexing.pc = "loop"
    /\ indexing.i > Len(indexing.file_paths)
    /\ indexing' = [indexing EXCEPT !.pc = "returned"]
    /\ UNCHANGED <<bucket, table, workerVars, agentVars, datastoreVars, callVars>>

IndexNext ==
    /\ \/ \E k \in ObjectKeys, content \in Contents : PutObject(k, content)
       \/ \E workspace_id \in Workspaces, file_paths \in FileLists :
            StartIndexing(workspace_id, file_paths)
       \/ IndexFile
       \/ FinishIndexing
    /\ UNCHANGED index_job

IndexSpec == IndexInit /\ [][IndexNext]_vars

\* The (workspace_id, file_path) pairs that have a row.
RowKeys(rows) == { <<r.workspace_id, r.file_path>> : r \in rows }

\* C17: after an indexing run over a list of files of workspace W, for every
\* file_path of the list the rows that existed for (W, file_path) before the
\* run are gone, and every row present for that pair was inserted by this run.
C17_PriorRowsReplaced ==
    indexing.pc = "returned" =>
      \A n \in 1..Len(indexing.file_paths) :
        LET key == <<indexing.workspace_id,
                     FilePathStr(indexing.file_paths[n])>> IN
        /\ \A r \in indexing.before :
             <<r.workspace_id, r.file_path>> = key => r \notin table.rows
        /\ \A r \in table.rows :
             <<r.workspace_id, r.file_path>> = key => r.by = indexing.run

\* The call that just returned had the arguments of the call before it, the
\* bucket was not written in between, and every file fared the same in both.
SameRunTwice ==
    /\ indexing.pc = "returned"
    /\ indexing.prev # NoRun
    /\ indexing.prev.workspace_id = indexing.workspace_id
    /\ indexing.prev.file_paths = indexing.file_paths
    /\ ~indexing.edited
    /\ indexing.prev.outcomes = indexing.outcomes

\* C18: indexing the same (workspace, files) twice in a row leaves the index
\* with the same set of (workspace_id, file_path) rows and the same row count
\* as indexing it once.
C18_SecondRunAddsNoRows ==
    SameRunTwice =>
      /\ RowKeys(table.rows) = RowKeys(indexing.prev.after)
      /\ Cardinality(table.rows) = Cardinality(indexing.prev.after)

\* The same two files were indexed by two calls in a row.
C18_Witness ==
    /\ SameRunTwice
    /\ indexing.file_paths = <<APy, BJs>>
    /\ indexing.indexed_files = <<APy, BJs>>
    /\ Cardinality(table.rows) = 2

(***************************************************************************)
(* rag-query-service: the agent graph and codebase_search_tool             *)
(***************************************************************************)
Queries == {"how does f work", "speed of light"}

\* What the planner's LLM can answer: the four named actions, or any other
\* string.
NextActions ==
    {"search_code_and_web", "search_code_only", "search_web_only",
     "no_retrieval", "something_else"}

\* A row as table.search(...).to_list() returns it: a dict of the table's
\* columns.  column is the name of the column that holds the code text.
SearchRow(column, code, file_path) ==
    (column :> code) @@ ("file_path" :> file_path)

\* The column names a table's rows can carry the code text under: "text" is
\* the schema the indexing service writes, "content" the column the query
\* service builds its full-text index on.
TextColumns == {"text", "content"}

\* The hits of the two searches, as lists of (code, file_path).
HitLists ==
    { <<>>,
      << <<"def f(): pass", "a.py">> >>,
      << <<"def f(): pass", "a.py">>, <<"g = 1", "b.js">> >> }

KeywordHitLists ==
    { <<>>,
      << <<"def f(): pass", "a.py">> >>,
      << <<"h()", "c.py">> >> }

Rows(column, hits) ==
    [n \in 1..Len(hits) |-> SearchRow(column, hits[n][1], hits[n][2])]

\* What a call of codebase_search_tool meets: whether the dependencies are
\* set, whether the table is there, the rows' schema, the hits of the vector
\* search, whether the keyword search raises and its hits when it does not,
\* and whether the reranker keeps the documents.
SearchEnvs ==
    [initialized : BOOLEAN, table_found : BOOLEAN, column : TextColumns,
     vector_hits : HitLists, fts_available : BOOLEAN,
     keyword_hits : KeywordHitLists, rerank_keeps : BOOLEAN]

NoEnv ==
    [initialized |-> FALSE, table_found |-> FALSE, column |-> "text",
     vector_hits |-> <<>>, fts_available |-> FALSE, keyword_hits |-> <<>>,
     rerank_keeps |-> FALSE]

ToolReturns(value) == [raised |-> Null, value |-> value]
ToolRaises(exc) == [raised |-> exc, value |-> Null]
NoToolCall == [raised |-> Null, value |-> Null]

\* Lines 72-76: keyword_results, [] when the search raises.
KeywordSearch(env) ==
    IF env.fts_available
    THEN [raised |-> Null, rows |-> Rows(env.column, env.keyword_hits)]
    ELSE [raised |-> Null, rows |-> <<>>]

\* Line 79: {res['content']: res for res in results}.values() -- one row per
\* content, at the place of its first occurrence, the last occurrence kept.
RECURSIVE CombineByContent(_, _)
CombineByContent(results, acc) ==
    IF results = <<>> THEN acc
    ELSE LET res == Head(results)
             seen == { n \in 1..Len(acc) : acc[n]["content"] = res["content"] }
         IN CombineByContent(Tail(results),
               IF seen = {} THEN Append(acc, res)
               ELSE [n \in 1..Len(acc) |-> IF n \in seen THEN res ELSE acc[n]])

\* The code fence of line 105 (three backquotes), which a string of this
\* module cannot hold.
CodeFence == "~~~"

\* Lines 102-107: the snippets, formatted and joined.
RECURSIVE FormatResults(_, _)
FormatResults(docs, i) ==
    IF i > Len(docs) THEN ""
    ELSE (IF i > 1 THEN "\n\n---\n\n" ELSE "")
         \o "Snippet " \o ToString(i) \o " from '" \o docs[i]["file_path"]
         \o "':\n" \o CodeFence \o "\n" \o docs[i]["content"]
         \o "\n" \o CodeFence
         \o FormatResults(docs, i + 1)

NotInitializedMessage ==
    "Error: Codebase search tool is not initialized. The database connection or embedding model is missing."
TableNotFoundMessage ==
    "Error: The LanceDB table 'code-vectors' was not found. The database may be empty or the index name is incorrect."
NoSnippetsMessage ==
    "No relevant code snippets found in the codebase for your query."
NoRerankedMessage == "No relevant code snippets found after reranking."

\* Lines 78-109: from the two result lists to the returned string.
CombineAndFormat(env, results) ==
    IF \E n \in 1..Len(results) : "content" \notin DOMAIN results[n]
    THEN ToolRaises("KeyError: 'content'")
    ELSE LET combined_results == CombineByContent(results, <<>>) IN
         IF combined_results = <<>> THEN ToolReturns(NoSnippetsMessage)
         ELSE IF ~env.rerank_keeps THEN ToolReturns(NoRerankedMessage)
         ELSE ToolReturns(FormatResults(combined_results, 1))

\* codebase_search_tool(query) in the environment env.
CodebaseSearchTool(env) ==
    IF ~env.initialized THEN ToolReturns(NotInitializedMessage)
    ELSE IF ~env.table_found THEN ToolReturns(TableNotFoundMessage)
    ELSE LET vector_results == Rows(env.column, env.vector_hits)
             keyword == KeywordSearch(env)
         IN IF keyword.raised # Null THEN ToolRaises(keyword.raised)
            ELSE CombineAndFormat(env, vector_results \o keyword.rows)

\* route_after_planning going straight to END when nothing is retrieved.
RouteAfterPlanningSkippingSummary(action) ==
    IF action = "search_code_and_web" THEN "retrieve_codebase"
    ELSE IF action = "search_code_only" THEN "retrieve_codebase"
    ELSE IF action = "search_web_only" THEN "retrieve_web"
    ELSE "END"

\* route_after_planning sending every decision but no_retrieval to the
\* codebase node.
RouteAfterPlanningCodeByDefault(action) ==
    IF action = "search_web_only" THEN "retrieve_web"
    ELSE IF action = "no_retrieval" THEN "summarize_context"
    ELSE "retrieve_codebase"

\* Lines 99-109.
RouteAfterPlanning(action) ==
    IF action = "search_code_and_web" THEN "retrieve_codebase"
    ELSE IF action = "search_code_only" THEN "retrieve_codebase"
    ELSE IF action = "search_web_only" THEN "retrieve_web"
    ELSE "summarize_context"

\* route_after_codebase never going to the web node.
RouteAfterCodebaseNeverWeb(action) == "summarize_context"

\* Lines 122-127.
RouteAfterCodebase(action) ==
    IF action = "search_code_and_web" THEN "retrieve_web"
    ELSE "summarize_context"

\* The state agent_graph.invoke is called with (main.py, lines 241-248),
\* before the call.
AgentIdle(user_query) ==
    [pc |-> "idle", user_query |-> user_query, next_action |-> Null,
     raw_code_snippets |-> <<>>, raw_web_results |-> <<>>,
     summarized_context |-> Null, exc |-> Null,
     \* history
     path |-> <<>>, env |-> NoEnv, tool |-> NoToolCall]

AgentInit ==
    /\ agent \in { AgentIdle(q) : q \in Queries }
    /\ QueryOff
    /\ WorkerOff
    /\ IndexOff
    /\ DatastoreOff
    /\ CallOff

\* A node raises: the exception leaves agent_graph.invoke.
NodeRaises(a, node, exc) ==
    [a EXCEPT !.pc = "raised", !.exc = exc, !.path = Append(@, node)]

\* agent_graph.invoke(...): the run starts at the entry point.
Invoke ==
    /\ agent.pc = "idle"
    /\ agent' = [agent EXCEPT !.pc = "plan_retrieval"]
    /\ UNCHANGED <<workerVars, indexVars, datastoreVars, callVars>>

\* plan_retrieval_strategy, then the conditional edge of lines 111-119.
PlanRetrieval ==
    /\ agent.pc = "plan_retrieval"
    /\ \/ \E action \in NextActions :
            agent' = [agent EXCEPT !.next_action = action,
                                   !.path = Append(@, "plan_retrieval"),
                                   !.pc = RouteAfterPlanning(action)]
       \/ agent' = NodeRaises(agent, "plan_retrieval", "LLM call failed")
    /\ UNCHANGED <<workerVars, indexVars, datastoreVars, callVars>>

\* retrieve_codebase_context, then the conditional edge of lines 129-136.
RetrieveCodebase ==
    /\ agent.pc = "retrieve_codebase"
    /\ \E env \in SearchEnvs :
         LET snippets == CodebaseSearchTool(env) IN
         agent' =
           IF snippets.raised # Null
           THEN [NodeRaises(agent, "retrieve_codebase", snippets.raised)
                   EXCEPT !.env = env, !.tool = snippets]
           ELSE [agent EXCEPT
                   !.raw_code_snippets = <<snippets.value>>,
                   !.path = Append(@, "retrieve_codebase"),
                   !.env = env, !.tool = snippets,
                   !.pc = RouteAfterCodebase(agent.next_action)]
    /\ UNCHANGED <<workerVars, indexVars, datastoreVars, callVars>>

\* retrieve_web_context, then the edge of line 139.
RetrieveWeb ==
    /\ agent.pc = "retrieve_web"
    /\ \/ agent' = [agent EXCEPT !.raw_web_results = <<"web results">>,
                                 !.path = Append(@, "retrieve_web"),
                                 !.pc = "summarize_context"]
       \/ agent' = NodeRaises(agent, "retrieve_web", "web search failed")
    /\ UNCHANGED <<workerVars, indexVars, datastoreVars, callVars>>

\* summarize_context, then the edge to END of line 142.
SummarizeContext ==
    /\ agent.pc = "summarize_context"
    /\ \/ agent' = [agent EXCEPT !.summarized_context = "summary",
                                 !.path = Append(@, "summarize_context"),
                                 !.pc = "END"]
       \/ agent' = NodeRaises(agent, "summarize_context", "LLM call failed")
    /\ UNCHANGED <<workerVars, indexVars, datastoreVars, callVars>>

AgentNext ==
    /\ \/ Invoke
       \/ PlanRetrieval
       \/ RetrieveCodebase
       \/ RetrieveWeb
       \/ SummarizeContext
    /\ UNCHANGED queryVars

AgentSpec == AgentInit /\ [][AgentNext]_vars

\* The node was executed in the run.
Executed(node) == \E n \in 1..Len(agent.path) : agent.path[n] = node

\* The keyword search of the tool call of this run was made and raised.
KeywordSearchFailed ==
    /\ agent.tool # NoToolCall
    /\ agent.env.initialized /\ agent.env.table_found
    /\ ~agent.env.fts_available

\* C19: in the codebase search, when the keyword search fails because the
\* FTS index is unavailable, the call does not fail: it goes on with the
\* vector-search results only and returns a result.
C19_KeywordFailureIsNotFatal ==
    KeywordSearchFailed =>
      /\ agent.tool.raised = Null
      /\ agent.tool.value # Null
      /\ agent.env.vector_hits = <<>> => agent.tool.value = NoSnippetsMessage
      /\ agent.env.vector_hits # <<>> =>
           agent.tool.value \in
             { NoRerankedMessage,
               FormatResults(Rows("content", agent.env.vector_hits), 1) }

\* C20: in a run of the agent graph the codebase retrieval node is executed
\* if and only if the planner's decision is search_code_and_web or
\* search_code_only.
C20_CodebaseNodeIffCodeDecision ==
    /\ Executed("retrieve_codebase") =>
         agent.next_action \in {"search_code_and_web", "search_code_only"}
    /\ (agent.pc = "END"
        /\ agent.next_action \in {"search_code_and_web", "search_code_only"})
         => Executed("retrieve_codebase")

\* A run whose planner decided search_code_only reached END through the
\* codebase node.
C20_Witness ==
    /\ agent.pc = "END"
    /\ agent.next_action = "search_code_only"
    /\ agent.path = <<"plan_retrieval", "retrieve_codebase", "summarize_context">>


(***************************************************************************)
(* The handler invocation as a whole: deadline, order of steps, failures.  *)
(***************************************************************************)
\* The queue's deadline for one delivery, in clock ticks.
TaskDeadline == 1

\* The delivery handled by w has passed its deadline while the handler waits
\* for a store transaction, a download or the child.
DeadlineExpired(w) ==
    /\ inv[w].pc \in {"fetching", "download", "running", "run", "exec", "final"}
    /\ now - inv[w].delivered_at >= TaskDeadline

\* C21: a handler whose delivery has passed its deadline aborts at its next
\* step: it records failed / worker_internal_error with the message "task
\* deadline exceeded" and acknowledges the task.
C21_DeadlineAbortsAndAcks ==
    [][\A w \in Workers :
         (DeadlineExpired(w) /\ inv'[w] # inv[w]) =>
            /\ inv'[w].pc = "done"
            /\ inv'[w].response.status_code = 200
            /\ job'.status = "failed"
            /\ job'.failure_type = "worker_internal_error"
            /\ job'.error = "task deadline exceeded"]_vars

\* The place of a step in the order of execute_auth_task.
StepRank(step) ==
    CASE step = "processing_auth_workspace" -> 1
      [] step = "fetching_from_r2" -> 2
      [] step = "download" -> 3
      [] step = "entrypoint_check" -> 4
      [] step = "running_auth_workspace" -> 5
      [] step = "run" -> 6
      [] OTHER -> 7

\* C22: within one /execute_auth invocation the steps come in the order
\* processing_auth_workspace written, fetching_from_r2 written, the
\* downloads, the entrypoint check, running_auth_workspace written, the
\* runner, the terminal write; the runner is invoked only after the write of
\* running_auth_workspace succeeded and nothing is downloaded before the
\* write of fetching_from_r2 succeeded.
C22_AuthStepsInOrder ==
    task.kind = "auth" =>
      \A w \in Workers :
        LET st == inv[w].steps IN
        /\ \A i, j \in 1..Len(st) :
              i < j => /\ StepRank(st[i]) <= StepRank(st[j])
                       /\ StepRank(st[i]) = StepRank(st[j]) => st[i] = "download"
        /\ (\E i \in 1..Len(st) : st[i] = "run") =>
              (\E i \in 1..Len(st) : st[i] = "running_auth_workspace")
        /\ (\E i \in 1..Len(st) : st[i] = "download") =>
              (\E i \in 1..Len(st) : st[i] = "fetching_from_r2")
        /\ inv[w].pc \in {"exec"} =>
              (\E i \in 1..Len(st) : st[i] = "running_auth_workspace")
        /\ st # <<>> => st[1] = "processing_auth_workspace"

C22_Witness ==
    /\ task.kind = "auth"
    /\ \E w \in Workers :
         inv[w].steps = <<"processing_auth_workspace", "fetching_from_r2",
                          "download", "download", "entrypoint_check",
                          "running_auth_workspace", "run", "completed">>

\* C23: when the terminal write of a run classified ok, user_error or timeout
\* fails, no later write of the same invocation records failed /
\* worker_internal_error with the store failure as the error.
C23_ClassificationNotReplaced ==
    \A w \in Workers :
      ~ /\ inv[w].ran > 0
        /\ inv[w].result.code \in {0, 1, 2}
        /\ inv[w].final_write = "failed"
        /\ inv[w].except_write = "ok"
        /\ inv[w].steps[Len(inv[w].steps)] = "failed"

\* The exits of execute_auth_task by an exception raised inside the scope.
RaisedInScope ==
    {"raised_fetching", "raised_download", "raised_running", "raised_final"}

\* C24: an exception raised inside the temporary-directory scope reaches the
\* catch-all, which attempts the write of failed / worker_internal_error
\* before the 500 is sent; when that write succeeds, the job it leaves is
\* terminal with that classification when the 500 is sent.
C24_ExceptionCommittedBeforePropagation ==
    /\ [](\A w \in Workers :
            inv[w].exit \in RaisedInScope =>
              \/ inv[w].pc = "except"
              \/ /\ inv[w].pc = "done"
                 /\ inv[w].response = HTTPException(500)
                 /\ inv[w].except_write \in {"ok", "failed"})
    /\ [][\A w \in Workers :
            (inv[w].pc = "except" /\ inv'[w] # inv[w]) =>
               /\ inv'[w].pc = "done"
               /\ inv'[w].response = HTTPException(500)
               /\ inv'[w].except_write = "ok" =>
                    /\ job'.status = "failed"
                    /\ job'.failure_type = "worker_internal_error"
                    /\ job'.completed_at = now
               /\ inv'[w].except_write # "ok" => job' = job]_vars

C24_Witness ==
    \E w \in Workers :
      /\ inv[w].exit = "raised_download"
      /\ inv[w].pc = "done"
      /\ inv[w].except_write = "ok"
      /\ inv[w].response.status_code = 500
      /\ job.status = "failed"
      /\ job.failure_type = "worker_internal_error"

\* C25: an invocation that ended on a worker-internal failure that is not
\* transient (here: an object that cannot be read or materialized) has
\* acknowledged its task with a 2xx response.
C25_InternalFailureAcked ==
    \A w \in Workers :
      (inv[w].pc = "done" /\ inv[w].exit = "raised_download") =>
         inv[w].response.status_code \in 200..299

\* C27: within one invocation a terminal write that succeeded is the last
\* step: no write follows it, and at most one terminal write succeeds.
C27_TerminalWriteIsLast ==
    \A w \in Workers :
      LET st == inv[w].steps IN
      /\ \A i \in 1..Len(st) : Terminal(st[i]) => i = Len(st)
      /\ (st # <<>> /\ Terminal(st[Len(st)])) => inv[w].pc = "done"
      /\ ~(inv[w].final_write = "ok" /\ inv[w].except_write # "none")

C27_Witness ==
    \E w \in Workers :
      LET st == inv[w].steps IN
      /\ inv[w].final_write = "failed"
      /\ inv[w].except_write = "ok"
      /\ st # <<>> /\ Terminal(st[Len(st)])
      /\ inv[w].pc = "done"

\* The steps that are writes of a status.
StatusSteps ==
    {"processing_direct", "processing_auth_workspace", "fetching_from_r2",
     "running_auth_workspace", "completed", "failed"}

\* The status an invocation wrote last, Null before its first write.
LastWritten(i) ==
    LET at == {k \in 1..Len(i.steps) : i.steps[k] \in StatusSteps} IN
    IF at = {} THEN Null
    ELSE i.steps[CHOOSE k \in at : \A l \in at : l <= k]

\* C28: a status write is never applied on top of a status that another
\* delivery of the job wrote and that the writing invocation did not observe
\* (the only statuses an invocation knows are those it wrote itself).
C28_NoBlindOverwrite ==
    [][\A w \in Workers :
         (/\ Len(inv'[w].steps) = Len(inv[w].steps) + 1
          /\ inv'[w].steps[Len(inv'[w].steps)] \in StatusSteps) =>
            ~ \E v \in Workers \ {w} :
                /\ LastWritten(inv[v]) = job.status
                /\ LastWritten(inv[w]) # job.status]_vars

(***************************************************************************)
(* python-worker-service/worker.py: /execute over Datastore.               *)
(***************************************************************************)
\* worker.py has its own default for the child's timeout.
WORKER_PY_EXECUTION_TIMEOUT_SEC == 10

ExecutePythonCodeTimeoutMessage ==
    "Execution timed out after " \o ToString(WORKER_PY_EXECUTION_TIMEOUT_SEC)
        \o " seconds."

\* execute_python_code: (output, error_details, status_code).
ExecutePythonCode(proc) ==
    IF proc.kind = "exit" /\ proc.returncode = 0
    THEN [output |-> proc.stdout, error |-> Null, code |-> 0]
    ELSE IF proc.kind = "exit"
    THEN [output |-> Null,
          error |-> IF Truthy(proc.stderr) THEN proc.stderr ELSE proc.stdout,
          code |-> 1]
    ELSE IF proc.kind = "timeout"
    THEN [output |-> Null, error |-> ExecutePythonCodeTimeoutMessage, code |-> 2]
    ELSE [output |-> Null,
          error |-> "Internal worker error during execution: spawn failed",
          code |-> 3]

\* The entity as the API service creates it, and the key with no entity.
QueuedEntity ==
    [exists |-> TRUE, status |-> "queued", output |-> Null, error |-> Null,
     processing_started_at |-> 0, completed_at |-> 0]

NoEntity ==
    [exists |-> FALSE, status |-> Null, output |-> Null, error |-> Null,
     processing_started_at |-> 0, completed_at |-> 0]

\* An invocation of execute_task_endpoint before its task is delivered.
DeliveryIdle ==
    [pc |-> "idle", result |-> [output |-> Null, error |-> Null, code |-> 0],
     response |-> NoResponse,
     \* history of the invocation
     processing_update |-> "none", ran |-> 0, final_update |-> "none"]

DatastoreInit ==
    /\ datastore_client \in BOOLEAN
    /\ entity \in {QueuedEntity, NoEntity}
    /\ deliveries = [w \in Workers |-> DeliveryIdle]
    /\ WorkerOff
    /\ IndexOff
    /\ AgentOff
    /\ CallOff

\* datetime.now advances.
DatastoreTick ==
    /\ now < MaxClock
    /\ now' = now + 1
    /\ UNCHANGED <<task, firestore_client, s3_client, job, inv>>
    /\ UNCHANGED <<indexVars, agentVars, datastoreVars, callVars>>

\* The queue delivers the job's task (again).
DatastoreDeliver(w) ==
    /\ deliveries[w].pc = "idle"
    /\ \A v \in Workers : v < w => deliveries[v].pc # "idle"
    /\ deliveries' = [deliveries EXCEPT ![w].pc = "entry"]
    /\ UNCHANGED <<datastore_client, entity>>
    /\ UNCHANGED <<workerVars, indexVars, agentVars, callVars>>

\* Lines 89-108: the client check, then the transaction that sets
\* "processing"; its failure is logged and the handler goes on.
ProcessingUpdate(w) ==
    /\ deliveries[w].pc = "entry"
    /\ IF ~datastore_client
       THEN /\ deliveries' = [deliveries EXCEPT ![w] =
                  [@ EXCEPT !.pc = "done", !.response = HTTPException(503)]]
            /\ UNCHANGED entity
       ELSE \E ok \in BOOLEAN :
              IF ok /\ entity.exists
              THEN /\ entity' = [entity EXCEPT !.status = "processing",
                                               !.processing_started_at = now]
                   /\ deliveries' = [deliveries EXCEPT ![w] =
                         [@ EXCEPT !.pc = "run", !.processing_update = "ok"]]
              ELSE /\ deliveries' = [deliveries EXCEPT ![w] =
                         [@ EXCEPT !.pc = "run",
                            !.processing_update =
                               IF ok THEN "not_found" ELSE "failed"]]
                   /\ UNCHANGED entity
    /\ UNCHANGED datastore_client
    /\ UNCHANGED <<workerVars, indexVars, agentVars, callVars>>

\* Line 113: the runner.
ExecuteCode(w) ==
    /\ deliveries[w].pc = "run"
    /\ \E proc \in Procs :
         deliveries' = [deliveries EXCEPT ![w] =
            [@ EXCEPT !.pc = "final", !.result = ExecutePythonCode(proc),
                      !.ran = @ + 1]]
    /\ UNCHANGED <<datastore_client, entity>>
    /\ UNCHANGED <<workerVars, indexVars, agentVars, callVars>>

\* Lines 120-150: the entity is read (created when missing) and the result
\* is put on it.
FinalEntity(e, result, t) ==
    [e EXCEPT !.exists = TRUE,
              !.completed_at = t,
              !.status = IF result.code = 0 THEN "completed" ELSE "failed",
              !.output = IF result.code = 0 THEN result.output ELSE @,
              !.error = IF result.code = 0 THEN @ ELSE result.error]

\* FinalUpdate answering 500 when the runner failed internally.
FinalUpdateErrorOnInternal(w) ==
    /\ deliveries[w].pc = "final"
    /\ \E ok \in BOOLEAN :
         /\ entity' = IF ok THEN FinalEntity(entity, deliveries[w].result, now)
                      ELSE entity
         /\ deliveries' = [deliveries EXCEPT ![w] =
               [@ EXCEPT !.pc = "done",
                         !.final_update = IF ok THEN "ok" ELSE "failed",
                         !.response =
                            IF ok /\ deliveries[w].result.code # 3
                            THEN Returned({"job_id", "message"})
                            ELSE HTTPException(500)]]
    /\ UNCHANGED datastore_client
    /\ UNCHANGED <<workerVars, indexVars, agentVars, callVars>>

\* Lines 118-157: the final transaction; its failure is answered with 500.
FinalUpdate(w) ==
    /\ deliveries[w].pc = "final"
    /\ \E ok \in BOOLEAN :
         IF ok
         THEN /\ entity' = FinalEntity(entity, deliveries[w].result, now)
              /\ deliveries' = [deliveries EXCEPT ![w] =
                    [@ EXCEPT !.pc = "done", !.final_update = "ok",
                              !.response = Returned({"job_id", "message"})]]
         ELSE /\ deliveries' = [deliveries EXCEPT ![w] =
                    [@ EXCEPT !.pc = "done", !.final_update = "failed",
                              !.response = HTTPException(500)]]
              /\ UNCHANGED entity
    /\ UNCHANGED datastore_client
    /\ UNCHANGED <<workerVars, indexVars, agentVars, callVars>>

DatastoreNext ==
    \/ DatastoreTick
    \/ \E w \in Workers :
         \/ DatastoreDeliver(w)
         \/ ProcessingUpdate(w)
         \/ ExecuteCode(w)
         \/ FinalUpdate(w)

DatastoreSpec == DatastoreInit /\ [][DatastoreNext]_vars

\* C26: when the write of the initial processing status fails, the handler
\* answers 500, does not invoke the runner and makes no other write to the
\* job in that invocation.
C26_InitialWriteFailureStops ==
    \A w \in Workers :
      deliveries[w].processing_update = "failed" =>
        /\ deliveries[w].ran = 0
        /\ deliveries[w].final_update = "none"
        /\ deliveries[w].pc = "done" => deliveries[w].response.status_code = 500

(***************************************************************************)
(* The runners and _build_final_update_data taken alone: one application   *)
(* of a function to arguments drawn from the sets below.                   *)
(***************************************************************************)
\* What subprocess.run can give: a completed process, TimeoutExpired, or
\* another exception.
ChildTerminations ==
    [kind : {"exit"}, returncode : {0, 1, 2}, stdout : {"", "hi\n"},
     stderr : {"", "NameError"}]
    \cup [kind : {"timeout", "oserror"}, returncode : {0}, stdout : {""},
          stderr : {""}]

RunnerNames ==
    {"_execute_python_code_direct", "_execute_python_script_in_dir",
     "execute_python_code"}

Runner(fn, proc) ==
    CASE fn = "_execute_python_code_direct" -> ExecutePythonCodeDirect(proc)
      [] fn = "_execute_python_script_in_dir" -> ExecutePythonScriptInDir(proc)
      [] fn = "execute_python_code" -> ExecutePythonCode(proc)

\* The arguments _build_final_update_data can be given.
BuildArguments ==
    [exec_status_code : 0..3, output : {Null, "", "hi\n"},
     error_details : {Null, "", "NameError"},
     current_status : {"processing_direct", "processing_auth_workspace"},
     t : 1..MaxClock]

NoProc == [kind |-> "none", returncode |-> 0, stdout |-> "", stderr |-> ""]
NoArguments ==
    [exec_status_code |-> 0, output |-> Null, error_details |-> Null,
     current_status |-> Null, t |-> 0]
NoResult == [output |-> Null, error |-> Null, code |-> 0]
NoData == [f \in {} |-> Null]

CallInit ==
    /\ call \in
         { [fn |-> fn, proc |-> proc, args |-> NoArguments, returned |-> FALSE,
            result |-> NoResult, data |-> NoData] :
              fn \in RunnerNames, proc \in ChildTerminations }
         \cup
         { [fn |-> "_build_final_update_data", proc |-> NoProc, args |-> args,
            returned |-> FALSE, result |-> NoResult, data |-> NoData] :
              args \in BuildArguments }
    /\ WorkerOff
    /\ IndexOff
    /\ AgentOff
    /\ DatastoreOff
    /\ PubSubOff

\* A runner is applied to the termination of its child.
CallRunner ==
    /\ call.fn \in RunnerNames
    /\ ~call.returned
    /\ call' = [call EXCEPT !.result = Runner(call.fn, call.proc),
                            !.returned = TRUE]
    /\ UNCHANGED <<workerVars, indexVars, agentVars, datastoreVars>>

\* _build_final_update_data is applied to its arguments.
CallBuildFinalUpdateData ==
    /\ call.fn = "_build_final_update_data"
    /\ ~call.returned
    /\ call' = [call EXCEPT
                  !.data = BuildFinalUpdateData(call.args.exec_status_code,
                              call.args.output, call.args.error_details,
                              call.args.current_status, call.args.t),
                  !.returned = TRUE]
    /\ UNCHANGED <<workerVars, indexVars, agentVars, datastoreVars>>

CallNext ==
    /\ \/ CallRunner
       \/ CallBuildFinalUpdateData
    /\ UNCHANGED pubsubVars

CallSpec == CallInit /\ [][CallNext]_vars

\* C29: every runner classifies every termination of the child into one
\* outcome: exit code 0 is code 0 with the captured stdout and no error; a
\* non-zero exit is code 1 with stderr as the error, or stdout when stderr
\* is empty; a timeout is code 2; another exception is code 3.
C29_RunnerClassifies ==
    (call.fn \in RunnerNames /\ call.returned) =>
       LET p == call.proc
           r == call.result IN
       /\ r.code \in 0..3
       /\ (p.kind = "exit" /\ p.returncode = 0) =>
             (r.code = 0 /\ r.output = p.stdout /\ r.error = Null)
       /\ (p.kind = "exit" /\ p.returncode # 0) =>
             /\ r.code = 1
             /\ r.error = IF p.stderr # "" THEN p.stderr ELSE p.stdout
       /\ p.kind = "timeout" => (r.code = 2 /\ r.error # Null)
       /\ p.kind = "oserror" => (r.code = 3 /\ r.error # Null)

C29_Witness ==
    /\ call.fn = "_execute_python_code_direct"
    /\ call.returned
    /\ call.proc.kind = "exit" /\ call.proc.returncode = 2
    /\ call.proc.stderr = "" /\ call.proc.stdout = "hi\n"
    /\ call.result.code = 1
    /\ call.result.error = "hi\n"

\* C30: _build_final_update_data maps code 0 to completed with the output
\* and error null, code 1 to failed / user_code_error with output and error,
\* code 2 to failed / timeout, code 3 to failed / worker_internal_error; the
\* output it writes is always a string, "" when nothing was captured.
C30_FinalDeltaByClassification ==
    (call.fn = "_build_final_update_data" /\ call.returned) =>
       LET a == call.args
           d == call.data IN
       /\ "output" \in DOMAIN d
       /\ d.output # Null
       /\ d.output = IF a.output \in {Null, ""} THEN "" ELSE a.output
       /\ a.exec_status_code = 0 =>
             /\ d.status = "completed"
             /\ d.error = Null
             /\ "failure_type" \notin DOMAIN d
       /\ a.exec_status_code # 0 =>
             /\ d.status = "failed"
             /\ d.error # Null
             /\ Truthy(a.error_details) => d.error = a.error_details
             /\ d.failure_type =
                  CASE a.exec_status_code = 1 -> "user_code_error"
                    [] a.exec_status_code = 2 -> "timeout"
                    [] a.exec_status_code = 3 -> "worker_internal_error"

C30_Witness ==
    /\ call.fn = "_build_final_update_data"
    /\ call.returned
    /\ call.args.exec_status_code = 2
    /\ call.args.output = Null
    /\ call.data.output = ""
    /\ call.data.failure_type = "timeout"

(***************************************************************************)
(* Timestamps of the job document.                                         *)
(***************************************************************************)
\* C31: the write of processing_direct / processing_auth_workspace sets
\* processing_started_at when it is unset, and no later write changes a
\* processing_started_at that is set.
C31_ProcessingStartedAtSetOnce ==
    [][/\ (~StartsWithProcessing(job.status) /\ StartsWithProcessing(job'.status))
            => job'.processing_started_at # 0
       /\ job.processing_started_at # 0
            => job'.processing_started_at = job.processing_started_at]_vars

(***************************************************************************)
(* rag-indexing-service: handle_cloud_task                                 *)
(***************************************************************************)
\* update_job_status: the update data, merged into the job document.
UpdateJobStatus(doc, status, output, error) ==
    [doc EXCEPT !.status = status,
                !.output = IF output # Null THEN output ELSE @,
                !.error = IF error # Null THEN error ELSE @]

\* Line 260: result_message
ResultMessage(indexed_files, workspace_id) ==
    "Successfully indexed " \o ToString(Len(indexed_files))
        \o " files for workspace " \o workspace_id

\* The handler before its task is delivered; doc is the job document.
IndexTaskIdle(workspace_id, files, client) ==
    [pc |-> "idle", workspace_id |-> workspace_id, files |-> files,
     firestore_client |-> client,
     doc |-> [status |-> "queued", output |-> Null, error |-> Null],
     exc |-> Null, response |-> NoResponse,
     \* history
     passed_entry |-> FALSE]

IndexTaskInit ==
    /\ bucket = [k \in ObjectKeys |-> "v1"]
    /\ table \in { [exists |-> FALSE, rows |-> {}],
                   [exists |-> TRUE,
                    rows |-> {CodeSnippet("v0", APy, "W1", 0)}] }
    /\ indexing = IndexIdle
    /\ index_job \in { IndexTaskIdle(ws, files, client) :
                         ws \in Workspaces, files \in FileLists,
                         client \in BOOLEAN }
    /\ WorkerOff
    /\ AgentOff
    /\ DatastoreOff
    /\ CallOff

IndexTaskUnchanged ==
    UNCHANGED <<bucket, table, indexing, workerVars, agentVars, datastoreVars,
                callVars>>

\* Lines 239-250: the payload is parsed, the client is checked and
\* "processing" is written; the HTTPException of line 247 and a failed write
\* are both caught at line 271.
IndexTaskEntry ==
    /\ index_job.pc = "idle"
    /\ IF ~index_job.firestore_client
       THEN index_job' = [index_job EXCEPT !.pc = "except",
                             !.exc = "503: Firestore client not available."]
       ELSE \E ok \in BOOLEAN :
              index_job' =
                IF ok
                THEN [index_job EXCEPT !.pc = "process", !.passed_entry = TRUE,
                        !.doc = UpdateJobStatus(@, "processing", Null, Null)]
                ELSE [index_job EXCEPT !.pc = "except",
                        !.exc = "Firestore update failed for job j1"]
    /\ IndexTaskUnchanged

\* Line 253: process_files_for_indexing is called.
IndexTaskProcess ==
    /\ index_job.pc = "process"
    /\ StartIndexing(index_job.workspace_id, index_job.files)
    /\ index_job' = [index_job EXCEPT !.pc = "loop"]

\* Lines 168-173: table_names, create_table or open_table raises.
IndexTaskProcessRaises ==
    /\ index_job.pc = "process"
    /\ index_job' = [index_job EXCEPT !.pc = "except",
                                      !.exc = "table not available"]
    /\ IndexTaskUnchanged

\* Lines 177-221 inside the call.
IndexTaskFile ==
    /\ index_job.pc = "loop"
    /\ IndexFile
    /\ UNCHANGED index_job

\* Lines 223, 260-269: the call returns, "completed" is written with the
\* result message, and the handler returns.
IndexTaskFinish ==
    /\ index_job.pc = "loop"
    /\ FinishIndexing
    /\ \E ok \in BOOLEAN :
         index_job' =
           IF ok
           THEN [index_job EXCEPT !.pc = "done",
                   !.doc = UpdateJobStatus(@, "completed",
                              ResultMessage(indexing.indexed_files,
                                            index_job.workspace_id), Null),
                   !.response = Returned({"status", "job_id", "indexed_files"})]
           ELSE [index_job EXCEPT !.pc = "except",
                   !.exc = "Firestore update failed for job j1"]

\* Lines 271-282: "failed" is written with str(e) if it can be, then 500.
IndexTaskExcept ==
    /\ index_job.pc = "except"
    /\ \E ok \in BOOLEAN :
         index_job' =
           [index_job EXCEPT
              !.pc = "done",
              !.doc = IF ok /\ index_job.firestore_client
                      THEN UpdateJobStatus(@, "failed", Null, index_job.exc)
                      ELSE @,
              !.response = HTTPException(500)]
    /\ IndexTaskUnchanged

IndexTaskNext ==
    \/ IndexTaskEntry
    \/ IndexTaskProcess
    \/ IndexTaskProcessRaises
    \/ IndexTaskFile
    \/ IndexTaskFinish
    \/ IndexTaskExcept

IndexTaskSpec == IndexTaskInit /\ [][IndexTaskNext]_vars

\* The outcomes of an iteration in which an error was caught.
FileErrors == {"download_failed", "failed_before_add", "add_failed"}

\* C32: an indexing task that passed the entry check and met an error while
\* a file was processed does not end with its job completed.
C32_IndexingErrorsFailTheJob ==
    (/\ index_job.pc = "done"
     /\ index_job.passed_entry
     /\ \E n \in 1..Len(indexing.outcomes) :
          indexing.outcomes[n] \in FileErrors)
      => index_job.doc.status # "completed"

(***************************************************************************)
(* Materialization of the manifest.                                        *)
(***************************************************************************)
\* Line 181: "if not s3_key or not relative_path".
SkippedEntry(f) == f.r2_object_key = "" \/ f.file_path = <<>>

\* The keys of the manifest entries that are not skipped, in manifest order.
RECURSIVE KeysToDownload(_)
KeysToDownload(files) ==
    IF files = <<>> THEN <<>>
    ELSE IF SkippedEntry(Head(files)) THEN KeysToDownload(Tail(files))
    ELSE <<Head(files).r2_object_key>> \o KeysToDownload(Tail(files))

IsPrefix(s, t) == Len(s) <= Len(t) /\ SubSeq(t, 1, Len(s)) = s

\* C33: a manifest entry with an empty key or an empty path is skipped
\* without failing the job, and the other entries are downloaded in manifest
\* order, all of them before the entrypoint check.
C33_EmptyEntriesSkipped ==
    task.kind = "auth" =>
      \A w \in Workers :
        /\ IsPrefix(inv[w].downloaded, KeysToDownload(task.files))
        /\ (\E n \in 1..Len(inv[w].steps) : inv[w].steps[n] = "entrypoint_check")
             => inv[w].downloaded = KeysToDownload(task.files)

C33_Witness ==
    /\ task.files = <<FileA, FileNoPath, FileLib>>
    /\ \E w \in Workers :
         /\ inv[w].downloaded = <<"w/a.py", "w/lib.py">>
         /\ inv[w].pc = "done"
         /\ inv[w].final_write = "ok"
         /\ job.status = "completed"

AgentLiveSpec == AgentInit /\ [][AgentNext]_vars /\ WF_vars(AgentNext)

\* How many times the node was executed in the run.
Executions(node) ==
    Cardinality({ n \in 1..Len(agent.path) : agent.path[n] = node })

GraphNodes ==
    {"plan_retrieval", "retrieve_codebase", "retrieve_web", "summarize_context"}

\* C35: for every planner decision a run of the agent graph ends after
\* finitely many steps, at END unless a node raised; no node is executed
\* twice, and a run at END executed summarize_context exactly once, as its
\* last node.
C35_RunEndsAfterOneSummary ==
    /\ [](\A node \in GraphNodes : Executions(node) <= 1)
    /\ [](agent.pc = "END" =>
            /\ Executions("summarize_context") = 1
            /\ agent.path[Len(agent.path)] = "summarize_context"
            /\ agent.path[1] = "plan_retrieval")
    /\ <>(agent.pc = "END" \/ (agent.pc = "raised" /\ agent.exc # Null))

\* A run whose planner answered none of the four named decisions.
C35_Witness ==
    /\ agent.pc = "END"
    /\ agent.next_action = "something_else"
    /\ agent.path = <<"plan_retrieval", "summarize_context">>

\* C36: the web retrieval node is executed if and only if the planner's
\* decision is search_code_and_web or search_web_only, and for
\* search_code_and_web it is executed after the codebase node.
C36_WebNodeIffWebDecision ==
    /\ Executed("retrieve_web") =>
         agent.next_action \in {"search_code_and_web", "search_web_only"}
    /\ (agent.pc = "END"
        /\ agent.next_action \in {"search_code_and_web", "search_web_only"})
         => Executed("retrieve_web")
    /\ (Executed("retrieve_web") /\ agent.next_action = "search_code_and_web") =>
         \E m, n \in 1..Len(agent.path) :
            /\ m < n
            /\ agent.path[m] = "retrieve_codebase"
            /\ agent.path[n] = "retrieve_web"
    /\ (agent.pc = "retrieve_web" /\ agent.next_action = "search_code_and_web") =>
         Executed("retrieve_codebase")

C36_Witness ==
    /\ agent.pc = "END"
    /\ agent.next_action = "search_code_and_web"
    /\ agent.path = <<"plan_retrieval", "retrieve_codebase", "retrieve_web",
                      "summarize_context">>

(***************************************************************************)
(* The workspace path with an empty manifest.                              *)
(***************************************************************************)
EmptyManifest == task.kind = "auth" /\ task.files = <<>>

\* C37: with an empty manifest nothing is downloaded, running_auth_workspace
\* is not written and the runner is not invoked; the final write records
\* failed / worker_internal_error with the error "No files found in job
\* payload manifest to download." and the handler then responds 200.
C37_EmptyManifestFails ==
    /\ [](EmptyManifest =>
            \A w \in Workers :
              /\ inv[w].ran = 0
              /\ inv[w].downloaded = <<>>
              /\ inv[w].pc \notin {"download", "running", "exec"}
              /\ \A n \in 1..Len(inv[w].steps) :
                   inv[w].steps[n] \notin
                     {"download", "entrypoint_check", "running_auth_workspace",
                      "run", "completed"})
    /\ [][EmptyManifest =>
            \A w \in Workers :
              (inv[w].pc = "final" /\ inv'[w].final_write = "ok") =>
                 /\ job'.status = "failed"
                 /\ job'.failure_type = "worker_internal_error"
                 /\ job'.error = NoFilesMessage
                 /\ inv'[w].pc = "done"
                 /\ inv'[w].response.status_code = 200]_vars

C37_Witness ==
    /\ EmptyManifest
    /\ \E w \in Workers :
         /\ inv[w].pc = "done"
         /\ inv[w].steps = <<"processing_auth_workspace", "fetching_from_r2",
                             "failed">>
         /\ inv[w].response.status_code = 200
    /\ job.status = "failed"
    /\ job.error = "No files found in job payload manifest to download."

(***************************************************************************)
(* rag-query-service: handle_cloud_task.  The handlers are coroutines of   *)
(* one event loop (uvicorn.run, main.py line 274): the loop runs one of    *)
(* them until it suspends or ends.                                         *)
(***************************************************************************)
QueryTasks == 1..MaxDeliveries

\* The connection made at startup (main.py, line 128).
StartupConnection == "startup"

\* Suspends with "await update_job_status" of line 235 giving up the loop.
SuspendsAtStatusUpdate(pc) == pc \in {"json", "processing"}

\* Where a handler gives up the event loop: "await request.json()" (line
\* 203).  update_job_status has no await of its own, so awaiting it (lines
\* 235, 253, 266) does not suspend, and agent_graph.invoke is a plain call.
Suspends(pc) == pc = "json"

\* The coroutine the loop runs after task t came to pc.
Yield(t, pc) == IF Suspends(pc) \/ pc = "done" THEN 0 ELSE t

\* update_job_status of the query service (main.py, lines 163-184).
QueryUpdateJobStatus(doc, status, output, error) ==
    [doc EXCEPT !.status = status,
                !.output = IF output # Null THEN output ELSE @,
                !.error = IF error # Null THEN error ELSE @]

QueryTaskIdle(workspace_id) ==
    [pc |-> "idle", workspace_id |-> workspace_id,
     doc |-> [status |-> "queued", output |-> Null, error |-> Null],
     exc |-> Null, response |-> NoResponse,
     \* history: the workspace of the connection the search tool read, and
     \* whether the other task was in flight when this one bound its own
     searched |-> Null, concurrent |-> FALSE]

QueryInit ==
    /\ db_connection = StartupConnection
    /\ event_loop = 0
    /\ query_tasks \in [QueryTasks -> { QueryTaskIdle(ws) : ws \in Workspaces }]
    /\ agent = <<>>
    /\ WorkerOff
    /\ IndexOff
    /\ DatastoreOff
    /\ CallOff

QueryOthersUnchanged ==
    UNCHANGED <<agent, workerVars, indexVars, datastoreVars, callVars>>

\* The loop runs task t: t holds the loop, or the loop is free and t is
\* suspended.
Runnable(t) ==
    \/ event_loop = t
    \/ event_loop = 0 /\ Suspends(query_tasks[t].pc)

\* Task t takes a step to pc with the changes of its record in rec.
QueryStep(t, rec) ==
    /\ Runnable(t)
    /\ query_tasks' = [query_tasks EXCEPT ![t] = rec]
    /\ event_loop' = Yield(t, rec.pc)

\* A request arrives: the handler starts and waits for the body (line 203).
QueryDeliver(t) ==
    /\ query_tasks[t].pc = "idle"
    /\ event_loop = 0
    /\ query_tasks' = [query_tasks EXCEPT ![t].pc = "json"]
    /\ event_loop' = 0
    /\ UNCHANGED db_connection
    /\ QueryOthersUnchanged

\* Lines 203-206: the body has arrived, the handler is resumed.
QueryParse(t) ==
    /\ query_tasks[t].pc = "json"
    /\ QueryStep(t, [query_tasks[t] EXCEPT !.pc = "connect"])
    /\ UNCHANGED db_connection
    /\ QueryOthersUnchanged

\* Lines 211-228: the workspace's connection is opened and bound to
\* dependencies.db_connection; a missing table or a failed connection raises.
QueryConnect(t) ==
    /\ query_tasks[t].pc = "connect"
    /\ \/ /\ db_connection' = query_tasks[t].workspace_id
          /\ QueryStep(t, [query_tasks[t] EXCEPT
                             !.pc = "processing",
                             !.concurrent =
                                \E u \in QueryTasks \ {t} :
                                   query_tasks[u].pc \notin {"idle", "done"}])
       \/ /\ UNCHANGED db_connection
          /\ QueryStep(t, [query_tasks[t] EXCEPT
                             !.pc = "except",
                             !.exc = "500: Failed to connect to workspace vector store."])
    /\ QueryOthersUnchanged

\* Lines 231-235: "processing" is written.
QueryProcessing(t) ==
    /\ query_tasks[t].pc = "processing"
    /\ \E ok \in BOOLEAN :
         QueryStep(t,
           IF ok
           THEN [query_tasks[t] EXCEPT !.pc = "invoke",
                   !.doc = QueryUpdateJobStatus(@, "processing", Null, Null)]
           ELSE [query_tasks[t] EXCEPT !.pc = "except",
                   !.exc = "Firestore update failed for job"])
    /\ UNCHANGED db_connection
    /\ QueryOthersUnchanged

\* Lines 238-250: agent_graph.invoke; when the planner's decision leads to
\* the codebase node, codebase_search_tool reads dependencies.db_connection
\* (tools.py, lines 50-54).
QueryInvoke(t) ==
    /\ query_tasks[t].pc = "invoke"
    /\ \/ \E action \in NextActions :
            QueryStep(t, [query_tasks[t] EXCEPT
                            !.pc = "completed",
                            !.searched =
                               IF RouteAfterPlanning(action) = "retrieve_codebase"
                               THEN db_connection ELSE Null])
       \/ QueryStep(t, [query_tasks[t] EXCEPT !.pc = "except",
                                              !.exc = "LLM call failed"])
    /\ UNCHANGED db_connection
    /\ QueryOthersUnchanged

\* Lines 253-257: "completed" is written with the answer, then the return.
QueryCompleted(t) ==
    /\ query_tasks[t].pc = "completed"
    /\ \E ok \in BOOLEAN :
         QueryStep(t,
           IF ok
           THEN [query_tasks[t] EXCEPT !.pc = "done",
                   !.doc = QueryUpdateJobStatus(@, "completed", "summary", Null),
                   !.response = Returned({"status", "job_id"})]
           ELSE [query_tasks[t] EXCEPT !.pc = "except",
                   !.exc = "Firestore update failed for job"])
    /\ UNCHANGED db_connection
    /\ QueryOthersUnchanged

\* Lines 259-270: "failed" is written if it can be, then 500.
QueryExcept(t) ==
    /\ query_tasks[t].pc = "except"
    /\ \E ok \in BOOLEAN :
         QueryStep(t, [query_tasks[t] EXCEPT
                         !.pc = "done",
                         !.doc = IF ok
                                 THEN QueryUpdateJobStatus(@, "failed", Null,
                                                           query_tasks[t].exc)
                                 ELSE @,
                         !.response = HTTPException(500)])
    /\ UNCHANGED db_connection
    /\ QueryOthersUnchanged

QueryNext ==
    \E t \in QueryTasks :
       \/ QueryDeliver(t)
       \/ QueryParse(t)
       \/ QueryConnect(t)
       \/ QueryProcessing(t)
       \/ QueryInvoke(t)
       \/ QueryCompleted(t)
       \/ QueryExcept(t)

QuerySpec == QueryInit /\ [][QueryNext]_vars

\* C38: the codebase search of a query task reads the connection that the
\* task itself bound for its workspace, also when another task for another
\* workspace is handled in an interleaved way.
C38_SearchUsesOwnConnection ==
    query_tasks # <<>> =>
      /\ \A t \in QueryTasks :
           query_tasks[t].searched \in {Null, query_tasks[t].workspace_id}
      /\ \A t \in QueryTasks :
           query_tasks[t].pc \in {"processing", "invoke"} =>
              db_connection = query_tasks[t].workspace_id

\* Two tasks for different workspaces, the second handled while the first
\* was in flight, each searched its own workspace.
C38_Witness ==
    /\ query_tasks # <<>>
    /\ query_tasks[1].workspace_id # query_tasks[2].workspace_id
    /\ \E t \in QueryTasks : query_tasks[t].concurrent
    /\ \A t \in QueryTasks :
         /\ query_tasks[t].pc = "done"
         /\ query_tasks[t].searched = query_tasks[t].workspace_id

(***************************************************************************)
(* server/worker.py: the Pub/Sub worker.  The subscriber calls             *)
(* process_message once for each message it receives; the callbacks run on *)
(* the subscriber's threads and share the Datastore.                       *)
(***************************************************************************)
Messages == 1..MaxDeliveries

\* What subprocess.check_output does with the child (lines 42-47).
CheckOutputOutcomes == {"returned", "CalledProcessError", "TimeoutExpired", "OSError"}

\* execute_code (lines 32-58).
execute_code(outcome) ==
    CASE outcome = "returned" ->
           [result |-> "stdout", status |-> 0]
      [] outcome = "CalledProcessError" ->
           [result |-> "e.output", status |-> 1]
      [] outcome = "TimeoutExpired" ->
           [result |-> "Code execution timed out after 30 seconds.", status |-> 2]
      [] OTHER ->
           [result |-> "An unexpected error occurred: e", status |-> 3]

\* The data of a message: text that is not JSON, or a JSON object.  The
\* publisher (server/main.py, CodeInput) sends code, stdin and isSubmit.
NotJson == [json |-> FALSE, code |-> Null, stdin |-> Null, isSubmit |-> FALSE]
MessageData ==
    {NotJson} \cup
    [json : {TRUE}, code : {Null, "", "print(1)"}, stdin : {Null, "1 2"},
     isSubmit : BOOLEAN]

NoOutput == [result |-> Null, status |-> -1]

\* save_to_datastore (lines 60-80): the entities of the kind after the call.
\* datastore_client is set whenever the module was imported (lines 20-27).
\* dict.get('stdin', "") gives the default for a missing key only, the
\* publisher's null stays None.
SaveToDatastore(results, code_payload, output, put_ok) ==
    IF ~ code_payload.isSubmit \/ output.status # 0
    THEN results
    ELSE IF ~ put_ok
    THEN results
    ELSE Append(results,
                [src |-> code_payload.code,
                 stdin |-> code_payload.stdin,
                 res |-> output.result,
                 status |-> output.status])

MessageReceived(data) ==
    [pc |-> "received", data |-> data, output |-> NoOutput,
     \* history of the callback
     executed |-> 0, save_returned |-> FALSE, saved |-> 0,
     acks |-> 0, nacks |-> 0]

PubSubInit ==
    /\ messages \in [Messages -> { MessageReceived(d) : d \in MessageData }]
    /\ exec_results = <<>>
    /\ call = <<>>
    /\ WorkerOff
    /\ IndexOff
    /\ AgentOff
    /\ DatastoreOff

PubSubOthersUnchanged ==
    UNCHANGED <<call, workerVars, indexVars, agentVars, datastoreVars>>

\* Lines 84-96 with the nack of line 95 not followed by the return.
ProcessMessageParseWithoutReturn(m) ==
    /\ messages[m].pc = "received"
    /\ LET d == messages[m].data IN
       messages' = [messages EXCEPT
          ![m].pc = IF ~ d.json THEN "done" ELSE "execute",
          ![m].nacks = IF ~ d.json \/ d.code \in {Null, ""} THEN @ + 1 ELSE @]
    /\ UNCHANGED exec_results
    /\ PubSubOthersUnchanged

\* Lines 84-96 and 106-108: the data is decoded and parsed; text that is
\* not JSON and a payload without code are nacked, and the callback ends.
ProcessMessageParse(m) ==
    /\ messages[m].pc = "received"
    /\ LET d == messages[m].data IN
       messages' = [messages EXCEPT
          ![m].pc = IF ~ d.json \/ d.code \in {Null, ""}
                    THEN "done" ELSE "execute",
          ![m].nacks = IF ~ d.json \/ d.code \in {Null, ""} THEN @ + 1 ELSE @]
    /\ UNCHANGED exec_results
    /\ PubSubOthersUnchanged

\* Lines 98-100: execute_code, which returns whatever the child does.
ProcessMessageExecute(m) ==
    /\ messages[m].pc = "execute"
    /\ \E outcome \in CheckOutputOutcomes :
         messages' = [messages EXCEPT
            ![m].pc = "save",
            ![m].output = execute_code(outcome),
            ![m].executed = @ + 1]
    /\ UNCHANGED exec_results
    /\ PubSubOthersUnchanged

\* Line 102: save_to_datastore, which returns also when the put fails.
ProcessMessageSave(m) ==
    /\ messages[m].pc = "save"
    /\ \E put_ok \in BOOLEAN :
         /\ exec_results' = SaveToDatastore(exec_results, messages[m].data,
                                            messages[m].output, put_ok)
         /\ messages' = [messages EXCEPT
               ![m].pc = "ack",
               ![m].save_returned = TRUE,
               ![m].saved = @ + (Len(exec_results') - Len(exec_results))]
    /\ PubSubOthersUnchanged

\* Lines 104-105: the ack.
ProcessMessageAck(m) ==
    /\ messages[m].pc = "ack"
    /\ messages' = [messages EXCEPT ![m].pc = "done", ![m].acks = @ + 1]
    /\ UNCHANGED exec_results
    /\ PubSubOthersUnchanged

PubSubNext ==
    \E m \in Messages :
       \/ ProcessMessageParse(m)
       \/ ProcessMessageExecute(m)
       \/ ProcessMessageSave(m)
       \/ ProcessMessageAck(m)

PubSubSpec == PubSubInit /\ [][PubSubNext]_vars

\* C39: every received message is settled once, by an ack or by a nack and
\* never by both; the ack comes only after the code was executed and the
\* save step returned; text that is not JSON and a payload without code are
\* nacked with nothing executed; a result is saved only when isSubmit is
\* true and the execution status is 0.
C39_SettledOnce ==
    messages # <<>> =>
      /\ \A m \in Messages :
           LET msg == messages[m] IN
           /\ msg.acks + msg.nacks <= 1
           /\ msg.pc = "done" => msg.acks + msg.nacks = 1
           /\ msg.acks = 1 => msg.executed = 1 /\ msg.save_returned
           /\ (msg.pc = "done" /\ (~ msg.data.json \/ msg.data.code \in {Null, ""}))
                 => msg.nacks = 1 /\ msg.executed = 0 /\ msg.saved = 0
           /\ msg.saved > 0 => msg.data.isSubmit /\ msg.output.status = 0
      /\ \A i \in DOMAIN exec_results : exec_results[i].status = 0

\* One message was executed, saved and acked, the other had no code and was
\* nacked.
C39_Witness ==
    /\ messages # <<>>
    /\ \E m, n \in Messages :
         /\ messages[m].pc = "done" /\ messages[m].acks = 1
         /\ messages[m].saved = 1 /\ Len(exec_results) = 1
         /\ messages[n].pc = "done" /\ messages[n].nacks = 1
         /\ messages[n].data.json /\ messages[n].data.code = ""

=============================================================================
